---- MODULE Spec2Model ----
(***************************************************************************)
(* Model of the compliance copilot: the KYC validation rule engine          *)
(* (kyc_validation/validation_agent.py) and the compliance aggregator       *)
(* (compliance_summary/summary_agent.py), with the collaborators they talk  *)
(* to (shared/kafka_handler.py, shared/models.py).                          *)
(*                                                                          *)
(* Python values are modelled as follows.                                   *)
(*   str    a sequence of Unicode code points (Integers), so that           *)
(*          substring tests, lower() and the regular expressions are        *)
(*          computed, not assumed;                                          *)
(*   dict   a function whose domain is the set of keys present, so that     *)
(*          dict.get(key, default) is computed on missing keys;             *)
(*   float  an IEEE-754 double, kept exactly as  n/d + (en/ed) * 2^-60 :    *)
(*          n/d is the value real arithmetic would give and en/ed the       *)
(*          accumulated rounding error, produced by round-to-nearest-even   *)
(*          after every operation.                                          *)
(***************************************************************************)
EXTENDS Integers, Sequences, FiniteSets, TLC

VARIABLES
    request,            \* the call about to be made: its operation and arguments
    ret,                \* what the call returned (None before the call)
    kyc_use_database,   \* KYCValidationAgent.use_database
    kyc_validations,    \* rows of the kyc_validations table
    kyc_events,         \* KYCValidationAgent.kafka_handler.handler.events
    kyc_is_mock,        \* KYCValidationAgent.kafka_handler.is_mock
    summary_use_database, \* ComplianceSummaryAgent.use_database
    summary_is_mock,    \* ComplianceSummaryAgent.kafka_handler.is_mock
    memory_summaries,   \* ComplianceSummaryAgent.memory_summaries
    summary_events,     \* ComplianceSummaryAgent.kafka_handler.handler.events
    ingest_use_database, \* use_database of the ingestion agent (simple or Agno)
    ingest_is_mock,     \* its kafka_handler.is_mock
    memory_storage,     \* its memory_storage
    documents,          \* rows of the documents table
    ingest_events,      \* its kafka_handler.handler.events
    agno_enabled,       \* AgnoDocumentIngestionAgent.agno_enabled
    knowledge,          \* the entries upserted into its vector knowledge base,
                        \* None when it has no knowledge base
    broker,             \* the events a real Kafka producer delivered
    db_write_fails,     \* environment: the database session raises during the call
    kafka_send_fails,   \* environment: producer.send/flush raises during the call
    knowledge_upsert_fails, \* environment: knowledge.upsert raises during the call
    now                 \* environment: the clock read by datetime.now()

kyc_vars == <<kyc_use_database, kyc_is_mock, kyc_validations, kyc_events>>

summary_vars == <<summary_use_database, summary_is_mock, memory_summaries, summary_events>>

ingest_vars == <<ingest_use_database, ingest_is_mock, memory_storage, documents,
                 ingest_events, agno_enabled, knowledge>>

env_vars == <<db_write_fails, kafka_send_fails, knowledge_upsert_fails, now>>

vars == <<request, ret, kyc_vars, summary_vars, ingest_vars, broker, env_vars>>

None == [none |-> TRUE]

\* dict.get(key, default)
Get(dict, key, default) == IF key \in DOMAIN dict THEN dict[key] ELSE default

(***************************************************************************)
(* Rational arithmetic on pairs <<numerator, denominator>>, denominator > 0 *)
(***************************************************************************)
Abs(x) == IF x < 0 THEN -x ELSE x

Sgn(x) == IF x > 0 THEN 1 ELSE IF x < 0 THEN -1 ELSE 0

RECURSIVE GCD(_, _)
GCD(a, b) == IF b = 0 THEN a ELSE GCD(b, a % b)

RNorm(n, d) == LET g == GCD(Abs(n), d) IN <<n \div g, d \div g>>

RAdd(a, b) == RNorm(a[1] * b[2] + b[1] * a[2], a[2] * b[2])

RNeg(a) == <<-a[1], a[2]>>

RMul(a, b) ==
    LET g1 == GCD(Abs(a[1]), b[2])
        g2 == GCD(Abs(b[1]), a[2])
    IN  RNorm((a[1] \div g1) * (b[1] \div g2), (a[2] \div g2) * (b[2] \div g1))

\* a / b for b > 0
RDiv(a, b) == RMul(a, <<b[2], b[1]>>)

RLess(a, b) == a[1] * b[2] < b[1] * a[2]

(***************************************************************************)
(* IEEE-754 binary64 arithmetic (Python float).  A double x is the record   *)
(* [n, d, en, ed] with  x = n/d + (en/ed) * 2^-60.  The doubles of the      *)
(* model are 0 and the values in [2^-8, 2^13).                              *)
(***************************************************************************)
FloatZero == [n |-> 0, d |-> 1, en |-> 0, ed |-> 1]

RECURSIVE PowMod(_, _)
\* 2^k mod m
PowMod(k, m) ==
    IF k = 0 THEN 1 % m
    ELSE LET h == PowMod(k \div 2, m)
             r == (h * h) % m
         IN  IF k % 2 = 1 THEN (2 * r) % m ELSE r

\* the binary exponent e of the real number n/d + (a negative or
\* non-negative error far below one ulp): 2^e <= value < 2^(e+1)
Exponent(n, d, dn) ==
    LET e0 == CHOOSE e \in -8..12 :
                  /\ (2^(e + 8)) * d <= n * 256
                  /\ n * 256 < (2^(e + 9)) * d
    IN  IF (2^(e0 + 8)) * d = n * 256 /\ dn < 0 THEN e0 - 1 ELSE e0

\* Round the real number P/Q + D * 2^-60 to the nearest double (53-bit
\* significand: one ulp is 2^(e-52)), ties to even.  sticky is the sign of a
\* remainder smaller than any rounding distance, which decides an apparent
\* tie (0: the tie is exact).  The steps, last first:
\* the double nearest to p/q, c - T/q ulps away from it
RoundResult(p, q, ulp, T, c) ==
    LET err == RMul(<<c * q - T, q>>, <<ulp, 1>>)
    IN  [n |-> p, d |-> q, en |-> err[1], ed |-> err[2]]

\* c: the fraction fl + rem/Fd of an ulp rounded to an integer
RoundFraction(p, q, ulp, par, T, fl, rem, Fd, sticky) ==
    RoundResult(p, q, ulp, T,
                IF 2 * rem < Fd THEN fl
                ELSE IF 2 * rem > Fd THEN fl + 1
                ELSE IF sticky < 0 THEN fl
                ELSE IF sticky > 0 THEN fl + 1
                ELSE IF (par + fl) % 2 = 0 THEN fl ELSE fl + 1)

\* F: what the value exceeds a multiple of one ulp by, in ulps
RoundExcess(p, q, ulp, par, T, F, sticky) ==
    RoundFraction(p, q, ulp, par, T,
                  F[1] \div F[2], F[1] % F[2], F[2], sticky)

\* t = (p / ulp) mod 2q: t \div q is the parity of floor(p/q / ulp), t % q
\* the fraction of p/q / ulp times q
RoundScaled(p, q, ulp, t, D, sticky) ==
    RoundExcess(p, q, ulp, t \div q, t % q,
                RAdd(<<t % q, q>>, RDiv(D, <<ulp, 1>>)), sticky)

\* ulp: one ulp at exponent e, in units of 2^-60
RoundAtExponent(p, q, e, D, sticky) ==
    RoundScaled(p, q, 2^(e + 8),
                ((p % (2 * q)) * PowMod(52 - e, 2 * q)) % (2 * q), D, sticky)

RoundNormalized(pq, D, sticky) ==
    RoundAtExponent(pq[1], pq[2], Exponent(pq[1], pq[2], D[1]), D, sticky)

RoundToDouble(P, Q, D, sticky) ==
    IF P = 0 THEN FloatZero ELSE RoundNormalized(RNorm(P, Q), D, sticky)

\* a decimal literal of the source, such as 0.3
FloatLiteral(n, d) == RoundToDouble(n, d, <<0, 1>>, 0)

\* int * float
FloatMulInt(s, w) ==
    RoundToDouble(s * w.n, w.d, RMul(<<s, 1>>, <<w.en, w.ed>>), 0)

\* float + float (and int 0 + float)
FloatAdd(x, y) ==
    LET nom == RAdd(<<x.n, x.d>>, <<y.n, y.d>>)
    IN  RoundToDouble(nom[1], nom[2], RAdd(<<x.en, x.ed>>, <<y.en, y.ed>>), 0)

\* float / float for y > 0.  With x = a1 + e1 and y = a2 + e2 the quotient
\* is a1/a2 + ((e1 - (a1/a2) e2) / a2) * (1 - e2/y): the last factor only
\* matters when the first-order value sits exactly on a rounding tie.
FloatDiv(x, y) ==
    LET R  == RDiv(<<x.n, x.d>>, <<y.n, y.d>>)
        D1 == RDiv(RAdd(<<x.en, x.ed>>, RNeg(RMul(R, <<y.en, y.ed>>))), <<y.n, y.d>>)
    IN  RoundToDouble(R[1], R[2], D1, -(Sgn(D1[1]) * Sgn(y.en)))

\* int / int (true division)
IntTrueDiv(a, b) == RoundToDouble(a, b, <<0, 1>>, 0)

\* float >= int, float < int, float > 0
FloatGeqInt(x, k) == x.n > k * x.d \/ (x.n = k * x.d /\ x.en >= 0)

FloatLtInt(x, k) == ~FloatGeqInt(x, k)

FloatIsPositive(x) == x.n > 0

\* float < float: the exact parts decide, the rounding errors break a tie
FloatLess(x, y) ==
    \/ RLess(<<x.n, x.d>>, <<y.n, y.d>>)
    \/ (x.n = y.n /\ x.d = y.d /\ RLess(<<x.en, x.ed>>, <<y.en, y.ed>>))

\* float <= int
FloatLeqInt(x, k) == x.n < k * x.d \/ (x.n = k * x.d /\ x.en <= 0)

\* min(x, y) of two floats: the first argument unless the second is smaller
FloatMin(x, y) == IF FloatLess(y, x) THEN y ELSE x

(***************************************************************************)
(* Python str operations on sequences of code points                        *)
(***************************************************************************)
\* str.lower(): the texts of the model hold ASCII and Arabic characters
\* only, and Arabic has no case
LowerChar(c) == IF c \in 65..90 THEN c + 32 ELSE c

Lower(text) == [i \in 1..Len(text) |-> LowerChar(text[i])]

\* keyword in text
Contains(text, keyword) ==
    \E i \in 1..(Len(text) - Len(keyword) + 1) :
        SubSeq(text, i, i + Len(keyword) - 1) = keyword

\* any(keyword in text for keyword in keywords)
ContainsAny(text, keywords) ==
    \E k \in 1..Len(keywords) : Contains(text, keywords[k])

RECURSIVE SumSeq(_)
SumSeq(seq) == IF seq = <<>> THEN 0 ELSE Head(seq) + SumSeq(Tail(seq))

RECURSIVE Concat(_)
\* the concatenation of a sequence of sequences
Concat(seqs) == IF seqs = <<>> THEN <<>> ELSE Head(seqs) \o Concat(Tail(seqs))

(***************************************************************************)
(* String constants of the source                                           *)
(***************************************************************************)
\* "number not found"
KwNumberNotFound ==
    <<110, 117, 109, 98, 101, 114, 32, 110, 111, 116, 32, 102, 111, 117, 110,
    100>>

\* "not detected"
KwNotDetected ==
    <<110, 111, 116, 32, 100, 101, 116, 101, 99, 116, 101, 100>>

\* "not found"
KwNotFound ==
    <<110, 111, 116, 32, 102, 111, 117, 110, 100>>

\* "Unknown"
StrUnknown ==
    <<85, 110, 107, 110, 111, 119, 110>>

\* "Commercial Registration number (10 digits) not found"
IssueCrNumber ==
    <<67, 111, 109, 109, 101, 114, 99, 105, 97, 108, 32, 82, 101, 103, 105,
    115, 116, 114, 97, 116, 105, 111, 110, 32, 110, 117, 109, 98, 101, 114,
    32, 40, 49, 48, 32, 100, 105, 103, 105, 116, 115, 41, 32, 110, 111, 116,
    32, 102, 111, 117, 110, 100>>

\* "Company name or business entity indicators not clear"
IssueCompany ==
    <<67, 111, 109, 112, 97, 110, 121, 32, 110, 97, 109, 101, 32, 111, 114,
    32, 98, 117, 115, 105, 110, 101, 115, 115, 32, 101, 110, 116, 105, 116,
    121, 32, 105, 110, 100, 105, 99, 97, 116, 111, 114, 115, 32, 110, 111,
    116, 32, 99, 108, 101, 97, 114>>

\* "Issue date or expiry date not clearly identified"
IssueDates ==
    <<73, 115, 115, 117, 101, 32, 100, 97, 116, 101, 32, 111, 114, 32, 101,
    120, 112, 105, 114, 121, 32, 100, 97, 116, 101, 32, 110, 111, 116, 32, 99,
    108, 101, 97, 114, 108, 121, 32, 105, 100, 101, 110, 116, 105, 102, 105,
    101, 100>>

\* "Document jurisdiction unclear - should be from Saudi Arabia"
IssueJurisdiction ==
    <<68, 111, 99, 117, 109, 101, 110, 116, 32, 106, 117, 114, 105, 115, 100,
    105, 99, 116, 105, 111, 110, 32, 117, 110, 99, 108, 101, 97, 114, 32, 45,
    32, 115, 104, 111, 117, 108, 100, 32, 98, 101, 32, 102, 114, 111, 109, 32,
    83, 97, 117, 100, 105, 32, 65, 114, 97, 98, 105, 97>>

\* "Valid Saudi National ID number (10 digits, starts with 1 or 2) not found"
IssueNationalId ==
    <<86, 97, 108, 105, 100, 32, 83, 97, 117, 100, 105, 32, 78, 97, 116, 105,
    111, 110, 97, 108, 32, 73, 68, 32, 110, 117, 109, 98, 101, 114, 32, 40,
    49, 48, 32, 100, 105, 103, 105, 116, 115, 44, 32, 115, 116, 97, 114, 116,
    115, 32, 119, 105, 116, 104, 32, 49, 32, 111, 114, 32, 50, 41, 32, 110,
    111, 116, 32, 102, 111, 117, 110, 100>>

\* "Arabic text not detected - may not be official Saudi document"
IssueArabic ==
    <<65, 114, 97, 98, 105, 99, 32, 116, 101, 120, 116, 32, 110, 111, 116, 32,
    100, 101, 116, 101, 99, 116, 101, 100, 32, 45, 32, 109, 97, 121, 32, 110,
    111, 116, 32, 98, 101, 32, 111, 102, 102, 105, 99, 105, 97, 108, 32, 83,
    97, 117, 100, 105, 32, 100, 111, 99, 117, 109, 101, 110, 116>>

\* "Identity document keywords not found"
IssueIdentityKeywords ==
    <<73, 100, 101, 110, 116, 105, 116, 121, 32, 100, 111, 99, 117, 109, 101,
    110, 116, 32, 107, 101, 121, 119, 111, 114, 100, 115, 32, 110, 111, 116,
    32, 102, 111, 117, 110, 100>>

\* "Bank statement indicators not found"
IssueBankKeywords ==
    <<66, 97, 110, 107, 32, 115, 116, 97, 116, 101, 109, 101, 110, 116, 32,
    105, 110, 100, 105, 99, 97, 116, 111, 114, 115, 32, 110, 111, 116, 32,
    102, 111, 117, 110, 100>>

\* "Account number or IBAN not found"
IssueAccount ==
    <<65, 99, 99, 111, 117, 110, 116, 32, 110, 117, 109, 98, 101, 114, 32,
    111, 114, 32, 73, 66, 65, 78, 32, 110, 111, 116, 32, 102, 111, 117, 110,
    100>>

\* "Saudi currency (SAR) not detected"
IssueCurrency ==
    <<83, 97, 117, 100, 105, 32, 99, 117, 114, 114, 101, 110, 99, 121, 32, 40,
    83, 65, 82, 41, 32, 110, 111, 116, 32, 100, 101, 116, 101, 99, 116, 101,
    100>>

\* "Tax certificate indicators not found"
IssueTaxKeywords ==
    <<84, 97, 120, 32, 99, 101, 114, 116, 105, 102, 105, 99, 97, 116, 101, 32,
    105, 110, 100, 105, 99, 97, 116, 111, 114, 115, 32, 110, 111, 116, 32,
    102, 111, 117, 110, 100>>

\* "15-digit VAT registration number not found"
IssueVat ==
    <<49, 53, 45, 100, 105, 103, 105, 116, 32, 86, 65, 84, 32, 114, 101, 103,
    105, 115, 116, 114, 97, 116, 105, 111, 110, 32, 110, 117, 109, 98, 101,
    114, 32, 110, 111, 116, 32, 102, 111, 117, 110, 100>>

\* "Certificate validity information unclear"
IssueValidity ==
    <<67, 101, 114, 116, 105, 102, 105, 99, 97, 116, 101, 32, 118, 97, 108,
    105, 100, 105, 116, 121, 32, 105, 110, 102, 111, 114, 109, 97, 116, 105,
    111, 110, 32, 117, 110, 99, 108, 101, 97, 114>>

\* "Unknown document type: "
IssueUnknownPrefix ==
    <<85, 110, 107, 110, 111, 119, 110, 32, 100, 111, 99, 117, 109, 101, 110,
    116, 32, 116, 121, 112, 101, 58, 32>>

\* "Ensure CR number is clearly visible in the document"
RecCrNumber ==
    <<69, 110, 115, 117, 114, 101, 32, 67, 82, 32, 110, 117, 109, 98, 101,
    114, 32, 105, 115, 32, 99, 108, 101, 97, 114, 108, 121, 32, 118, 105, 115,
    105, 98, 108, 101, 32, 105, 110, 32, 116, 104, 101, 32, 100, 111, 99, 117,
    109, 101, 110, 116>>

\* "Ensure company name is clearly visible"
RecCompany ==
    <<69, 110, 115, 117, 114, 101, 32, 99, 111, 109, 112, 97, 110, 121, 32,
    110, 97, 109, 101, 32, 105, 115, 32, 99, 108, 101, 97, 114, 108, 121, 32,
    118, 105, 115, 105, 98, 108, 101>>

\* "Ensure document dates are visible"
RecDates ==
    <<69, 110, 115, 117, 114, 101, 32, 100, 111, 99, 117, 109, 101, 110, 116,
    32, 100, 97, 116, 101, 115, 32, 97, 114, 101, 32, 118, 105, 115, 105, 98,
    108, 101>>

\* "Verify document is issued by Saudi authorities"
RecJurisdiction ==
    <<86, 101, 114, 105, 102, 121, 32, 100, 111, 99, 117, 109, 101, 110, 116,
    32, 105, 115, 32, 105, 115, 115, 117, 101, 100, 32, 98, 121, 32, 83, 97,
    117, 100, 105, 32, 97, 117, 116, 104, 111, 114, 105, 116, 105, 101, 115>>

\* "Ensure National ID number is clearly visible"
RecNationalId ==
    <<69, 110, 115, 117, 114, 101, 32, 78, 97, 116, 105, 111, 110, 97, 108,
    32, 73, 68, 32, 110, 117, 109, 98, 101, 114, 32, 105, 115, 32, 99, 108,
    101, 97, 114, 108, 121, 32, 118, 105, 115, 105, 98, 108, 101>>

\* "Ensure document contains Arabic text"
RecArabic ==
    <<69, 110, 115, 117, 114, 101, 32, 100, 111, 99, 117, 109, 101, 110, 116,
    32, 99, 111, 110, 116, 97, 105, 110, 115, 32, 65, 114, 97, 98, 105, 99,
    32, 116, 101, 120, 116>>

\* "Ensure account number/IBAN is visible"
RecAccount ==
    <<69, 110, 115, 117, 114, 101, 32, 97, 99, 99, 111, 117, 110, 116, 32,
    110, 117, 109, 98, 101, 114, 47, 73, 66, 65, 78, 32, 105, 115, 32, 118,
    105, 115, 105, 98, 108, 101>>

\* "Ensure statement shows SAR currency"
RecCurrency ==
    <<69, 110, 115, 117, 114, 101, 32, 115, 116, 97, 116, 101, 109, 101, 110,
    116, 32, 115, 104, 111, 119, 115, 32, 83, 65, 82, 32, 99, 117, 114, 114,
    101, 110, 99, 121>>

\* "Ensure VAT number is clearly visible"
RecVat ==
    <<69, 110, 115, 117, 114, 101, 32, 86, 65, 84, 32, 110, 117, 109, 98, 101,
    114, 32, 105, 115, 32, 99, 108, 101, 97, 114, 108, 121, 32, 118, 105, 115,
    105, 98, 108, 101>>

\* "Please provide a supported document type"
RecSupportedType ==
    <<80, 108, 101, 97, 115, 101, 32, 112, 114, 111, 118, 105, 100, 101, 32,
    97, 32, 115, 117, 112, 112, 111, 114, 116, 101, 100, 32, 100, 111, 99,
    117, 109, 101, 110, 116, 32, 116, 121, 112, 101>>

\* "Account number not clearly visible"
IssueAccountNotVisible ==
    <<65, 99, 99, 111, 117, 110, 116, 32, 110, 117, 109, 98, 101, 114, 32,
    110, 111, 116, 32, 99, 108, 101, 97, 114, 108, 121, 32, 118, 105, 115,
    105, 98, 108, 101>>


(***************************************************************************)
(* Regular expressions of validation_agent.py (module re, str patterns)     *)
(***************************************************************************)
\* \d: the Unicode decimal digits (ASCII, Arabic-Indic, Extended Arabic-Indic)
IsDigit(c) == c \in 48..57 \/ c \in 1632..1641 \/ c \in 1776..1785

\* \w: alphanumeric or underscore, for ASCII and the Arabic block
IsWordChar(c) ==
    \/ c \in 48..57 \/ c \in 65..90 \/ c = 95 \/ c \in 97..122
    \/ c \in 1568..1610 \/ c \in 1632..1641 \/ c \in 1646..1647
    \/ c \in 1649..1747 \/ c = 1749 \/ c \in 1765..1766
    \/ c \in 1774..1788 \/ c = 1791

\* [\u0600-\u06FF]
IsArabic(c) == c \in 1536..1791

\* \d{n} at position i
DigitRun(text, i, n) ==
    /\ i + n - 1 <= Len(text)
    /\ \A j \in i..(i + n - 1) : IsDigit(text[j])

\* \b in front of the word character at position i
BoundaryBefore(text, i) == i = 1 \/ ~IsWordChar(text[i - 1])

\* \b behind the word character at position j
BoundaryAfter(text, j) == j = Len(text) \/ ~IsWordChar(text[j + 1])

\* \b\d{n}\b at position i
BoundedDigitsAt(text, i, n) ==
    /\ DigitRun(text, i, n)
    /\ BoundaryBefore(text, i)
    /\ BoundaryAfter(text, i + n - 1)

\* re.search(r'\b\d{10}\b', text)
SearchCrPattern(text) == \E i \in 1..Len(text) : BoundedDigitsAt(text, i, 10)

\* re.search(r'\b[12]\d{9}\b', text)
SearchIdPattern(text) ==
    \E i \in 1..Len(text) : text[i] \in {49, 50} /\ BoundedDigitsAt(text, i, 10)

\* re.search(r'\b\d{15}\b', text)
SearchVatPattern(text) == \E i \in 1..Len(text) : BoundedDigitsAt(text, i, 15)

\* re.findall(r'\bSA\d{22}\b', text) is not empty
FindIban(text) ==
    \E i \in 1..Len(text) :
        /\ i + 23 <= Len(text)
        /\ text[i] = 83
        /\ text[i + 1] = 65
        /\ DigitRun(text, i + 2, 22)
        /\ BoundaryBefore(text, i)
        /\ BoundaryAfter(text, i + 23)

\* re.findall(r'\b\d{10,20}\b', text) is not empty
FindAccountNumber(text) ==
    \E i \in 1..Len(text) : \E n \in 10..20 : BoundedDigitsAt(text, i, n)

IsDateSeparator(c) == c = 45 \/ c = 47

\* re.findall(r'\d{4}-\d{2}-\d{2}', text) is not empty
FindIsoDate(text) ==
    \E i \in 1..Len(text) :
        /\ i + 9 <= Len(text)
        /\ DigitRun(text, i, 4)
        /\ text[i + 4] = 45
        /\ DigitRun(text, i + 5, 2)
        /\ text[i + 7] = 45
        /\ DigitRun(text, i + 8, 2)

\* re.findall(r'\d{2}/\d{2}/\d{4}', text) is not empty
FindSlashDate(text) ==
    \E i \in 1..Len(text) :
        /\ i + 9 <= Len(text)
        /\ DigitRun(text, i, 2)
        /\ text[i + 2] = 47
        /\ DigitRun(text, i + 3, 2)
        /\ text[i + 5] = 47
        /\ DigitRun(text, i + 6, 4)

\* re.findall(r'\d{1,2}[-/]\d{1,2}[-/]\d{4}', text) is not empty
FindFlexibleDate(text) ==
    \E i \in 1..Len(text) : \E a \in 1..2 : \E b \in 1..2 :
        /\ i + a + b + 5 <= Len(text)
        /\ DigitRun(text, i, a)
        /\ IsDateSeparator(text[i + a])
        /\ DigitRun(text, i + a + 1, b)
        /\ IsDateSeparator(text[i + a + b + 1])
        /\ DigitRun(text, i + a + b + 2, 4)

\* re.search(r"[\u0600-\u06FF]+", text)
SearchArabic(text) == \E i \in 1..Len(text) : IsArabic(text[i])

(***************************************************************************)
(* KYCValidationAgent: the rule engine (kyc_validation/validation_agent.py) *)
(***************************************************************************)
\* company_indicators = ["company", "corp", "ltd", "llc", "\u0634\u0631\u0643\u0629"]
company_indicators ==
    <<<<99, 111, 109, 112, 97, 110, 121>>,
      <<99, 111, 114, 112>>,
      <<108, 116, 100>>,
      <<108, 108, 99>>,
      <<1588, 1585, 1603, 1577>>>>

\* saudi_indicators = ["saudi", "\u0627\u0644\u0633\u0639\u0648\u062F\u064A\u0629", "kingdom", "\u0627\u0644\u0645\u0645\u0644\u0643\u0629", "riyadh", "jeddah", "\u0627\u0644\u0631\u064A\u0627\u0636"]
saudi_indicators ==
    <<<<115, 97, 117, 100, 105>>,
      <<1575, 1604, 1587, 1593, 1608, 1583, 1610, 1577>>,
      <<107, 105, 110, 103, 100, 111, 109>>,
      <<1575, 1604, 1605, 1605, 1604, 1603, 1577>>,
      <<114, 105, 121, 97, 100, 104>>,
      <<106, 101, 100, 100, 97, 104>>,
      <<1575, 1604, 1585, 1610, 1575, 1590>>>>

\* id_keywords = ["identity", "national", "\u0647\u0648\u064A\u0629", "\u0648\u0637\u0646\u064A\u0629", "card", "\u0628\u0637\u0627\u0642\u0629"]
id_keywords ==
    <<<<105, 100, 101, 110, 116, 105, 116, 121>>,
      <<110, 97, 116, 105, 111, 110, 97, 108>>,
      <<1607, 1608, 1610, 1577>>,
      <<1608, 1591, 1606, 1610, 1577>>,
      <<99, 97, 114, 100>>,
      <<1576, 1591, 1575, 1602, 1577>>>>

\* bank_keywords = ["bank", "\u0628\u0646\u0643", "account", "\u062D\u0633\u0627\u0628", "statement", "\u0643\u0634\u0641", "balance", "\u0631\u0635\u064A\u062F"]
bank_keywords ==
    <<<<98, 97, 110, 107>>,
      <<1576, 1606, 1603>>,
      <<97, 99, 99, 111, 117, 110, 116>>,
      <<1581, 1587, 1575, 1576>>,
      <<115, 116, 97, 116, 101, 109, 101, 110, 116>>,
      <<1603, 1588, 1601>>,
      <<98, 97, 108, 97, 110, 99, 101>>,
      <<1585, 1589, 1610, 1583>>>>

\* currency_patterns = ["SAR", "SR", "\u0631\u064A\u0627\u0644", "\u0631\u0633"]
currency_patterns ==
    <<<<83, 65, 82>>,
      <<83, 82>>,
      <<1585, 1610, 1575, 1604>>,
      <<1585, 1587>>>>

\* tax_keywords = ["tax", "\u0636\u0631\u064A\u0628\u0629", "vat", "\u0636\u0631\u064A\u0628\u0629 \u0627\u0644\u0642\u064A\u0645\u0629 \u0627\u0644\u0645\u0636\u0627\u0641\u0629", "certificate", "\u0634\u0647\u0627\u062F\u0629"]
tax_keywords ==
    <<<<116, 97, 120>>,
      <<1590, 1585, 1610, 1576, 1577>>,
      <<118, 97, 116>>,
      <<1590, 1585, 1610, 1576, 1577, 32, 1575, 1604, 1602, 1610, 1605, 1577, 32, 1575, 1604, 1605, 1590, 1575, 1601, 1577>>,
      <<99, 101, 114, 116, 105, 102, 105, 99, 97, 116, 101>>,
      <<1588, 1607, 1575, 1583, 1577>>>>

\* validity_keywords = ["valid", "issued", "expiry", "\u0635\u0627\u0644\u062D", "\u0635\u0627\u062F\u0631"]
validity_keywords ==
    <<<<118, 97, 108, 105, 100>>,
      <<105, 115, 115, 117, 101, 100>>,
      <<101, 120, 112, 105, 114, 121>>,
      <<1589, 1575, 1604, 1581>>,
      <<1589, 1575, 1583, 1585>>>>

\* the characters of a document type name
DocTypeChars(doc_type) ==
    CASE doc_type = "commercial_registration" ->
           <<99, 111, 109, 109, 101, 114, 99, 105, 97, 108, 95, 114, 101,
           103, 105, 115, 116, 114, 97, 116, 105, 111, 110>>
      [] doc_type = "national_id" ->
           <<110, 97, 116, 105, 111, 110, 97, 108, 95, 105, 100>>
      [] doc_type = "bank_statements" ->
           <<98, 97, 110, 107, 95, 115, 116, 97, 116, 101, 109, 101, 110,
           116, 115>>
      [] doc_type = "tax_certificate" ->
           <<116, 97, 120, 95, 99, 101, 114, 116, 105, 102, 105, 99, 97,
           116, 101>>
      [] doc_type = "unknown" ->
           <<117, 110, 107, 110, 111, 119, 110>>
      [] doc_type = "passport" ->
           <<112, 97, 115, 115, 112, 111, 114, 116>>
      [] doc_type = "utility_bill" ->
           <<117, 116, 105, 108, 105, 116, 121, 95, 98, 105, 108, 108>>

\* One check of a validator: whether it passed, the points it adds, the
\* issue and the recommendations appended when it fails, the keys written
\* to details when it passes.
Check(passed, weight, issue, recommendations, details) ==
    [passed |-> passed, weight |-> weight, issue |-> issue,
     recommendations |-> recommendations, details |-> details]

\* RunChecks that returns at the first failed check
RunChecksEarlyExit(checks) ==
    LET Indices == 1..Len(checks)
        Reached(k) == \A j \in 1..(k - 1) : checks[j].passed
        score == SumSeq([k \in Indices |->
                            IF Reached(k) /\ checks[k].passed THEN checks[k].weight ELSE 0])
    IN  [is_valid        |-> score >= 70,
         score           |-> score,
         issues          |-> Concat([k \in Indices |->
                                IF Reached(k) /\ ~checks[k].passed
                                THEN <<checks[k].issue>> ELSE <<>>]),
         recommendations |-> Concat([k \in Indices |->
                                IF Reached(k) /\ ~checks[k].passed
                                THEN checks[k].recommendations ELSE <<>>]),
         details         |-> Concat([k \in Indices |->
                                IF Reached(k) /\ checks[k].passed
                                THEN checks[k].details ELSE <<>>])]

\* RunChecks with the pass threshold compared strictly
RunChecksStrictThreshold(checks) ==
    LET Indices == 1..Len(checks)
        score == SumSeq([k \in Indices |->
                            IF checks[k].passed THEN checks[k].weight ELSE 0])
    IN  [is_valid        |-> score > 70,
         score           |-> score,
         issues          |-> Concat([k \in Indices |->
                                IF checks[k].passed THEN <<>> ELSE <<checks[k].issue>>]),
         recommendations |-> Concat([k \in Indices |->
                                IF checks[k].passed THEN <<>> ELSE checks[k].recommendations]),
         details         |-> Concat([k \in Indices |->
                                IF checks[k].passed THEN checks[k].details ELSE <<>>])]

\* The body shared by the four _validate_* methods: the checks run in
\* order, none is skipped, and the result is built from score, issues,
\* recommendations and details.  details holds the keys stored, not the
\* matched evidence.
RunChecks(checks) ==
    LET Indices == 1..Len(checks)
        score == SumSeq([k \in Indices |->
                            IF checks[k].passed THEN checks[k].weight ELSE 0])
    IN  [is_valid        |-> score >= 70,
         score           |-> score,
         issues          |-> Concat([k \in Indices |->
                                IF checks[k].passed THEN <<>> ELSE <<checks[k].issue>>]),
         recommendations |-> Concat([k \in Indices |->
                                IF checks[k].passed THEN <<>> ELSE checks[k].recommendations]),
         details         |-> Concat([k \in Indices |->
                                IF checks[k].passed THEN checks[k].details ELSE <<>>])]

_validate_commercial_registration(text) ==
    RunChecks(<<
        Check(SearchCrPattern(text), 25,
              IssueCrNumber, <<RecCrNumber>>, <<"cr_number">>),
        Check(ContainsAny(Lower(text), company_indicators), 25,
              IssueCompany, <<RecCompany>>, <<>>),
        Check(FindIsoDate(text) \/ FindSlashDate(text) \/ FindFlexibleDate(text), 20,
              IssueDates, <<RecDates>>, <<"dates_found">>),
        Check(ContainsAny(Lower(text), saudi_indicators), 30,
              IssueJurisdiction, <<RecJurisdiction>>, <<"saudi_indicators">>) >>)

_validate_national_id(text) ==
    RunChecks(<<
        Check(SearchIdPattern(text), 40,
              IssueNationalId, <<RecNationalId>>, <<"national_id">>),
        Check(SearchArabic(text), 30,
              IssueArabic, <<RecArabic>>, <<>>),
        Check(ContainsAny(Lower(text), id_keywords), 30,
              IssueIdentityKeywords, <<>>, <<"identity_keywords">>) >>)

\* _validate_bank_statements with the weights of the keyword check and of
\* the account check exchanged
_validate_bank_statements_account30(text) ==
    RunChecks(<<
        Check(ContainsAny(Lower(text), bank_keywords), 35,
              IssueBankKeywords, <<>>, <<"bank_keywords">>),
        Check(FindIban(text) \/ FindAccountNumber(text), 30,
              IssueAccount, <<RecAccount>>, <<"account_numbers">>),
        Check(ContainsAny(text, currency_patterns), 35,
              IssueCurrency, <<RecCurrency>>, <<"currency">>) >>)

_validate_bank_statements(text) ==
    RunChecks(<<
        Check(ContainsAny(Lower(text), bank_keywords), 30,
              IssueBankKeywords, <<>>, <<"bank_keywords">>),
        Check(FindIban(text) \/ FindAccountNumber(text), 35,
              IssueAccount, <<RecAccount>>, <<"account_numbers">>),
        Check(ContainsAny(text, currency_patterns), 35,
              IssueCurrency, <<RecCurrency>>, <<"currency">>) >>)

\* _validate_tax_certificate with 30 points for the validity check
_validate_tax_certificate_validity30(text) ==
    RunChecks(<<
        Check(ContainsAny(Lower(text), tax_keywords), 40,
              IssueTaxKeywords, <<>>, <<"tax_keywords">>),
        Check(SearchVatPattern(text), 35,
              IssueVat, <<RecVat>>, <<"vat_number">>),
        Check(ContainsAny(Lower(text), validity_keywords), 30,
              IssueValidity, <<>>, <<>>) >>)

_validate_tax_certificate(text) ==
    RunChecks(<<
        Check(ContainsAny(Lower(text), tax_keywords), 40,
              IssueTaxKeywords, <<>>, <<"tax_keywords">>),
        Check(SearchVatPattern(text), 35,
              IssueVat, <<RecVat>>, <<"vat_number">>),
        Check(ContainsAny(Lower(text), validity_keywords), 25,
              IssueValidity, <<>>, <<>>) >>)

\* _run_validation whose unknown-type issue leaves out the type
_run_validation_unnamed_type(doc_type, text) ==
    IF doc_type = "commercial_registration" THEN _validate_commercial_registration(text)
    ELSE IF doc_type = "national_id" THEN _validate_national_id(text)
    ELSE IF doc_type = "bank_statements" THEN _validate_bank_statements(text)
    ELSE IF doc_type = "tax_certificate" THEN _validate_tax_certificate(text)
    ELSE [is_valid        |-> FALSE,
          score           |-> 0,
          issues          |-> <<IssueUnknownPrefix>>,
          recommendations |-> <<RecSupportedType>>,
          details         |-> <<"supported_types">>]

\* _run_validation(doc_type, text, filename); filename is not used
_run_validation(doc_type, text) ==
    IF doc_type = "commercial_registration" THEN _validate_commercial_registration(text)
    ELSE IF doc_type = "national_id" THEN _validate_national_id(text)
    ELSE IF doc_type = "bank_statements" THEN _validate_bank_statements(text)
    ELSE IF doc_type = "tax_certificate" THEN _validate_tax_certificate(text)
    ELSE [is_valid        |-> FALSE,
          score           |-> 0,
          issues          |-> <<IssueUnknownPrefix \o DocTypeChars(doc_type)>>,
          recommendations |-> <<RecSupportedType>>,
          details         |-> <<"supported_types">>]

\* a direct call of the rule engine
RunValidation ==
    /\ ret = None
    /\ request.op = "_run_validation"
    /\ ret' = _run_validation(request.doc_type, request.text)
    /\ UNCHANGED <<request, kyc_vars, summary_vars, ingest_vars, broker, env_vars>>

(***************************************************************************)
(* The rule engine on bounded texts                                         *)
(***************************************************************************)
\* "1234567890"
FragCrNumber ==
    <<49, 50, 51, 52, 53, 54, 55, 56, 57, 48>>

\* "Company \u0634\u0631\u0643\u0629"
FragCompany ==
    <<67, 111, 109, 112, 97, 110, 121, 32, 1588, 1585, 1603, 1577>>

\* "Valid until 2025-06-01"
FragValidUntil ==
    <<86, 97, 108, 105, 100, 32, 117, 110, 116, 105, 108, 32, 50, 48, 50, 53,
    45, 48, 54, 45, 48, 49>>

\* "Riyadh, Saudi Arabia"
FragRiyadh ==
    <<82, 105, 121, 97, 100, 104, 44, 32, 83, 97, 117, 100, 105, 32, 65, 114,
    97, 98, 105, 97>>

\* "Identity Card"
FragIdentityCard ==
    <<73, 100, 101, 110, 116, 105, 116, 121, 32, 67, 97, 114, 100>>

\* "Bank Statement"
FragBankStatement ==
    <<66, 97, 110, 107, 32, 83, 116, 97, 116, 101, 109, 101, 110, 116>>

\* "5000 SAR"
FragSar ==
    <<53, 48, 48, 48, 32, 83, 65, 82>>

\* "Tax Certificate"
FragTaxCertificate ==
    <<84, 97, 120, 32, 67, 101, 114, 116, 105, 102, 105, 99, 97, 116, 101>>

\* "123456789012345"
FragVatNumber ==
    <<49, 50, 51, 52, 53, 54, 55, 56, 57, 48, 49, 50, 51, 52, 53>>

\* "IBAN SA0380000000608010167519"
FragIban ==
    <<73, 66, 65, 78, 32, 83, 65, 48, 51, 56, 48, 48, 48, 48, 48, 48, 48, 54,
    48, 56, 48, 49, 48, 49, 54, 55, 53, 49, 57>>

\* "REF1098765432"
FragGluedNumber ==
    <<82, 69, 70, 49, 48, 57, 56, 55, 54, 53, 52, 51, 50>>

\* "account number not clearly visible"
FragAccountNotVisible ==
    <<97, 99, 99, 111, 117, 110, 116, 32, 110, 117, 109, 98, 101, 114, 32,
    110, 111, 116, 32, 99, 108, 101, 97, 114, 108, 121, 32, 118, 105, 115,
    105, 98, 108, 101>>

\* "3987654321"
FragForeignId ==
    <<51, 57, 56, 55, 54, 53, 52, 51, 50, 49>>

TextFragments ==
    <<FragCrNumber,
      FragCompany,
      FragValidUntil,
      FragRiyadh,
      FragIdentityCard,
      FragBankStatement,
      FragSar,
      FragTaxCertificate,
      FragVatNumber,
      FragIban,
      FragGluedNumber,
      FragAccountNotVisible,
      FragForeignId>>

\* the largest number of fragments in one text
MaxFragments == 4

RECURSIVE JoinFrom(_, _)
\* the chosen fragments, one per line, in the order of TextFragments
JoinFrom(chosen, i) ==
    IF i > Len(TextFragments) THEN <<>>
    ELSE (IF i \in chosen THEN TextFragments[i] \o <<10>> ELSE <<>>)
         \o JoinFrom(chosen, i + 1)

Texts ==
    { JoinFrom(chosen, 1) :
        chosen \in { c \in SUBSET (1..Len(TextFragments)) : Cardinality(c) <= MaxFragments } }

SupportedTypes == {"commercial_registration", "national_id", "bank_statements", "tax_certificate"}

\* the document types handed to the rule engine: the four supported ones,
\* "unknown", and a type the pipeline has no rules for
DocTypes == SupportedTypes \cup {"unknown", "passport"}

\* the ingestion agent as constructed with the defaults: no database, mock
\* Kafka, empty storage, Agno disabled
IngestIdle ==
    /\ ingest_use_database = FALSE
    /\ ingest_is_mock = TRUE
    /\ memory_storage = <<>>
    /\ documents = <<>>
    /\ ingest_events = <<>>
    /\ agno_enabled = FALSE
    /\ knowledge = None

Init ==
    /\ request \in [op : {"_run_validation"}, doc_type : DocTypes, text : Texts]
    /\ ret = None
    /\ kyc_use_database = FALSE
    /\ kyc_is_mock = TRUE
    /\ kyc_validations = <<>>
    /\ kyc_events = <<>>
    /\ summary_use_database = FALSE
    /\ summary_is_mock = TRUE
    /\ memory_summaries = <<>>
    /\ summary_events = <<>>
    /\ IngestIdle
    /\ broker = <<>>
    /\ db_write_fails = FALSE
    /\ kafka_send_fails = FALSE
    /\ knowledge_upsert_fails = FALSE
    /\ now = 0

Next == RunValidation

Spec == Init /\ [][Next]_vars

(***************************************************************************)
(* validate_kyc_document: type identification, rules, storage, event        *)
(***************************************************************************)
\* a customer id that is a bytes object, b'CUST123', and not a str
BytesCustomerId == "b'CUST123'"

\* json.dumps(value) raises TypeError ("Object of type bytes is not JSON
\* serializable") on a value that holds a bytes object; every event value
\* and result holds the customer_id of the call, and nothing else of it can
\* be bytes
JsonDumpsRaises(call) == call.customer_id = BytesCustomerId

\* send_event publishing every event twice
send_event_twice(is_mock, events, topic, key, value) ==
    IF is_mock
    THEN Append(Append(events, [topic |-> topic, key |-> key, value |-> value]),
                [topic |-> topic, key |-> key, value |-> value])
    ELSE events

\* MockKafkaHandler.send_event / KafkaHandler.send_event: the mock appends
\* to its list, and only then prints json.dumps(value), which may raise; the
\* real producer sends to the broker or logs the failure, and leaves the
\* agent's state alone either way
send_event(is_mock, events, topic, key, value) ==
    IF is_mock
    THEN Append(events, [topic |-> topic, key |-> key, value |-> value])
    ELSE events

\* KafkaHandler.send_event, the broker's side: a real producer delivers the
\* event unless its value_serializer (json.dumps), send or flush raises, and
\* the exception is caught and logged
deliver(is_mock, send_fails, delivered, topic, key, value) ==
    IF ~is_mock /\ ~send_fails
    THEN Append(delivered, [topic |-> topic, key |-> key, value |-> value])
    ELSE delivered

\* "commercial" in filename_lower or "registration" in filename_lower
FilenameCommercial ==
    <<<<99, 111, 109, 109, 101, 114, 99, 105, 97, 108>>,
      <<114, 101, 103, 105, 115, 116, 114, 97, 116, 105, 111, 110>>>>

\* "national" in filename_lower or "id" in filename_lower
FilenameNational ==
    <<<<110, 97, 116, 105, 111, 110, 97, 108>>,
      <<105, 100>>>>

\* "bank" in filename_lower or "statement" in filename_lower
FilenameBank ==
    <<<<98, 97, 110, 107>>,
      <<115, 116, 97, 116, 101, 109, 101, 110, 116>>>>

\* "tax" in filename_lower or "vat" in filename_lower
FilenameTax ==
    <<<<116, 97, 120>>,
      <<118, 97, 116>>>>

\* ["commercial registration", "\u062a\u062c\u0627\u0631\u064a", "ministry of commerce"]
ContentCommercial ==
    <<<<99, 111, 109, 109, 101, 114, 99, 105, 97, 108, 32, 114, 101, 103, 105, 115, 116, 114, 97, 116, 105, 111, 110>>,
      <<1578, 1580, 1575, 1585, 1610>>,
      <<109, 105, 110, 105, 115, 116, 114, 121, 32, 111, 102, 32, 99, 111, 109, 109, 101, 114, 99, 101>>>>

\* ["national id", "\u0647\u0648\u064a\u0629", "identity card"]
ContentNational ==
    <<<<110, 97, 116, 105, 111, 110, 97, 108, 32, 105, 100>>,
      <<1607, 1608, 1610, 1577>>,
      <<105, 100, 101, 110, 116, 105, 116, 121, 32, 99, 97, 114, 100>>>>

\* ["bank statement", "account", "\u0628\u0646\u0643"]
ContentBank ==
    <<<<98, 97, 110, 107, 32, 115, 116, 97, 116, 101, 109, 101, 110, 116>>,
      <<97, 99, 99, 111, 117, 110, 116>>,
      <<1576, 1606, 1603>>>>

\* ["tax certificate", "vat", "\u0636\u0631\u064a\u0628\u0629"]
ContentTax ==
    <<<<116, 97, 120, 32, 99, 101, 114, 116, 105, 102, 105, 99, 97, 116, 101>>,
      <<118, 97, 116>>,
      <<1590, 1585, 1610, 1576, 1577>>>>

\* _identify_document_type deciding on the filename alone
_identify_document_type_filename_only(filename, text) ==
    IF ContainsAny(Lower(filename), FilenameCommercial) THEN "commercial_registration"
    ELSE IF ContainsAny(Lower(filename), FilenameNational) THEN "national_id"
    ELSE IF ContainsAny(Lower(filename), FilenameBank) THEN "bank_statements"
    ELSE IF ContainsAny(Lower(filename), FilenameTax) THEN "tax_certificate"
    ELSE "unknown"

\* _identify_document_type(filename, text): the filename is checked first,
\* then the content
_identify_document_type(filename, text) ==
    IF ContainsAny(Lower(filename), FilenameCommercial) THEN "commercial_registration"
    ELSE IF ContainsAny(Lower(filename), FilenameNational) THEN "national_id"
    ELSE IF ContainsAny(Lower(filename), FilenameBank) THEN "bank_statements"
    ELSE IF ContainsAny(Lower(filename), FilenameTax) THEN "tax_certificate"
    ELSE IF ContainsAny(Lower(text), ContentCommercial) THEN "commercial_registration"
    ELSE IF ContainsAny(Lower(text), ContentNational) THEN "national_id"
    ELSE IF ContainsAny(Lower(text), ContentBank) THEN "bank_statements"
    ELSE IF ContainsAny(Lower(text), ContentTax) THEN "tax_certificate"
    ELSE "unknown"

\* json.dumps(value): a str holding the JSON encoding of value
JsonDumps(value) == [json |-> value]

\* the KYCValidation row _store_validation_result builds from a result
KYCValidationRow(result) ==
    [document_id      |-> result.document_id,
     customer_id      |-> result.customer_id,
     document_type    |-> result.document_type,
     is_valid         |-> result.is_valid,
     validation_score |-> result.validation_score,
     issues           |-> JsonDumps(result.issues),
     recommendations  |-> JsonDumps(result.recommendations)]

\* _store_validation_result(result): the row is added and committed; an
\* exception of the session is caught and logged
_store_validation_result(rows, write_fails, result) ==
    IF write_fails THEN rows ELSE Append(rows, KYCValidationRow(result))

\* None passed where a str is expected: no sequence of code points
NoText == <<-1>>

\* the result validate_kyc_document builds from the outcome of the rules
KycResult(document_id, customer_id, filename, doc_type, validation_result, clock) ==
    [document_id        |-> document_id,
     customer_id        |-> customer_id,
     filename           |-> filename,
     document_type      |-> doc_type,
     is_valid           |-> validation_result.is_valid,
     validation_score   |-> validation_result.score,
     issues             |-> validation_result.issues,
     recommendations    |-> validation_result.recommendations,
     validated_at       |-> clock,
     validation_details |-> validation_result.details]

\* validate_kyc_document(document_id, extracted_text, filename, customer_id)
ValidateKycDocument ==
    /\ ret = None
    /\ request.op = "validate_kyc_document"
    /\ IF request.extracted_text = NoText
       THEN \* text.lower() raises AttributeError: the except branch
            /\ ret' = [document_id  |-> request.document_id,
                       customer_id  |-> request.customer_id,
                       filename     |-> request.filename,
                       is_valid     |-> FALSE,
                       error        |-> "AttributeError",
                       validated_at |-> now]
            /\ UNCHANGED <<kyc_validations, kyc_events, broker>>
       ELSE LET doc_type == _identify_document_type(request.filename,
                                                    request.extracted_text)
                result   == KycResult(request.document_id, request.customer_id,
                                      request.filename, doc_type,
                                      _run_validation(doc_type, request.extracted_text),
                                      now)
            IN  /\ kyc_validations' =
                       IF kyc_use_database
                       THEN _store_validation_result(kyc_validations, db_write_fails, result)
                       ELSE kyc_validations
                /\ kyc_events' = send_event(kyc_is_mock, kyc_events,
                                            "kyc-validation-completed",
                                            request.document_id, result)
                /\ broker' = deliver(kyc_is_mock, kafka_send_fails \/ JsonDumpsRaises(request), broker,
                                     "kyc-validation-completed",
                                     request.document_id, result)
                /\ ret' = IF kyc_is_mock /\ JsonDumpsRaises(request)
                          THEN \* the mock raises after it appended the event
                               [document_id  |-> request.document_id,
                                customer_id  |-> request.customer_id,
                                filename     |-> request.filename,
                                is_valid     |-> FALSE,
                                error        |-> "TypeError",
                                validated_at |-> now]
                          ELSE result
    /\ UNCHANGED <<request, kyc_use_database, kyc_is_mock, summary_vars,
                   ingest_vars, env_vars>>

\* "Commercial Registration Certificate"
FragCrCertificate ==
    <<67, 111, 109, 109, 101, 114, 99, 105, 97, 108, 32, 82, 101, 103, 105,
    115, 116, 114, 97, 116, 105, 111, 110, 32, 67, 101, 114, 116, 105,
    102, 105, 99, 97, 116, 101>>

\* "Issue Date: 2024-01-15"
FragIssueDate ==
    <<73, 115, 115, 117, 101, 32, 68, 97, 116, 101, 58, 32, 50, 48, 50, 52,
    45, 48, 49, 45, 49, 53>>

\* the fragments of the KYC scenarios: the four items of the commercial
\* registration scenario, a company name, and the headings of the other types
KycFragments ==
    <<FragCrCertificate,
      FragCompany,
      FragCrNumber,
      FragIssueDate,
      FragRiyadh,
      FragIdentityCard,
      FragBankStatement,
      FragTaxCertificate>>

RECURSIVE JoinFragments(_, _, _)
\* the chosen fragments of a pool, one per line, in the order of the pool
JoinFragments(fragments, chosen, i) ==
    IF i > Len(fragments) THEN <<>>
    ELSE (IF i \in chosen THEN fragments[i] \o <<10>> ELSE <<>>)
         \o JoinFragments(fragments, chosen, i + 1)

\* the largest number of fragments in one text handed to validate_kyc_document
MaxKycFragments == 5

KycTexts ==
    { JoinFragments(KycFragments, chosen, 1) :
        chosen \in { c \in SUBSET (1..Len(KycFragments)) : Cardinality(c) <= MaxKycFragments } }

\* "document.txt"
FileDocument ==
    <<100, 111, 99, 117, 109, 101, 110, 116, 46, 116, 120, 116>>

\* "commercial_registration.txt"
FileCommercialRegistration ==
    <<99, 111, 109, 109, 101, 114, 99, 105, 97, 108, 95, 114, 101, 103,
    105, 115, 116, 114, 97, 116, 105, 111, 110, 46, 116, 120, 116>>

\* "national_id.txt"
FileNationalId ==
    <<110, 97, 116, 105, 111, 110, 97, 108, 95, 105, 100, 46, 116, 120,
    116>>

\* "bank_statement.pdf"
FileBankStatement ==
    <<98, 97, 110, 107, 95, 115, 116, 97, 116, 101, 109, 101, 110, 116, 46,
    112, 100, 102>>

\* "VAT_return.pdf"
FileVatReturn ==
    <<86, 65, 84, 95, 114, 101, 116, 117, 114, 110, 46, 112, 100, 102>>

\* "valid_cr.txt"
FileValidCr ==
    <<118, 97, 108, 105, 100, 95, 99, 114, 46, 116, 120, 116>>

KycFilenames ==
    {FileDocument, FileCommercialRegistration, FileNationalId, FileBankStatement,
     FileVatReturn, FileValidCr}

InitKyc ==
    /\ request \in [op             : {"validate_kyc_document"},
                    document_id    : {"DOC001"},
                    extracted_text : KycTexts \cup {NoText},
                    filename       : KycFilenames,
                    customer_id    : {"CUST123"}]
    /\ ret = None
    /\ kyc_use_database \in BOOLEAN
    /\ kyc_is_mock \in BOOLEAN
    /\ kyc_validations = <<>>
    /\ kyc_events = <<>>
    /\ summary_use_database = FALSE
    /\ summary_is_mock = TRUE
    /\ memory_summaries = <<>>
    /\ summary_events = <<>>
    /\ IngestIdle
    /\ broker = <<>>
    /\ db_write_fails \in (IF kyc_use_database THEN BOOLEAN ELSE {FALSE})
    /\ kafka_send_fails \in (IF kyc_is_mock THEN {FALSE} ELSE BOOLEAN)
    /\ knowledge_upsert_fails = FALSE
    /\ now = 0

NextKyc == ValidateKycDocument

SpecKyc == InitKyc /\ [][NextKyc]_vars

(***************************************************************************)
(* The enhanced analysis of the Agno ingestion agent                        *)
(***************************************************************************)
\* the keys of classification_scores, in the order of the dict
ClassifierTypes ==
    <<"commercial_registration", "national_id", "bank_statement", "tax_certificate">>

\* the content keywords of each type, in the order of ClassifierTypes
ClassifierContentKeywords ==
    <<<<<<99, 111, 109, 109, 101, 114, 99, 105, 97, 108, 32, 114, 101, 103, 105, 115, 116, 114, 97, 116, 105, 111, 110>>,
        <<1578, 1580, 1575, 1585, 1610>>,
        <<109, 105, 110, 105, 115, 116, 114, 121, 32, 111, 102, 32, 99, 111, 109, 109, 101, 114, 99, 101>>,
        <<114, 101, 103, 105, 115, 116, 114, 97, 116, 105, 111, 110, 32, 110, 117, 109, 98, 101, 114>>,
        <<99, 111, 109, 112, 97, 110, 121, 32, 110, 97, 109, 101>>,
        <<98, 117, 115, 105, 110, 101, 115, 115, 32, 97, 99, 116, 105, 118, 105, 116, 121>>>>,
      <<<<110, 97, 116, 105, 111, 110, 97, 108, 32, 105, 100, 101, 110, 116, 105, 116, 121>>,
        <<1607, 1608, 1610, 1577, 32, 1608, 1591, 1606, 1610, 1577>>,
        <<105, 100, 101, 110, 116, 105, 116, 121, 32, 99, 97, 114, 100>>,
        <<105, 100, 32, 110, 117, 109, 98, 101, 114>>>>,
      <<<<98, 97, 110, 107, 32, 115, 116, 97, 116, 101, 109, 101, 110, 116>>,
        <<97, 99, 99, 111, 117, 110, 116, 32, 110, 117, 109, 98, 101, 114>>,
        <<98, 97, 108, 97, 110, 99, 101>>,
        <<116, 114, 97, 110, 115, 97, 99, 116, 105, 111, 110>>,
        <<115, 97, 114>>>>,
      <<<<116, 97, 120, 32, 99, 101, 114, 116, 105, 102, 105, 99, 97, 116, 101>>,
        <<118, 97, 116>>,
        <<1590, 1585, 1610, 1576, 1577>>,
        <<122, 97, 116, 99, 97>>,
        <<116, 97, 120, 32, 114, 101, 103, 105, 115, 116, 114, 97, 116, 105, 111, 110>>>>>>

\* the filename tokens of each type, in the order of ClassifierTypes
ClassifierFilenameTokens ==
    <<<<<<99, 111, 109, 109, 101, 114, 99, 105, 97, 108>>,
        <<114, 101, 103, 105, 115, 116, 114, 97, 116, 105, 111, 110>>,
        <<99, 114>>>>,
      <<<<110, 97, 116, 105, 111, 110, 97, 108>>,
        <<105, 100>>,
        <<105, 100, 101, 110, 116, 105, 116, 121>>>>,
      <<<<98, 97, 110, 107>>,
        <<115, 116, 97, 116, 101, 109, 101, 110, 116>>,
        <<97, 99, 99, 111, 117, 110, 116>>>>,
      <<<<116, 97, 120>>,
        <<118, 97, 116>>,
        <<99, 101, 114, 116, 105, 102, 105, 99, 97, 116, 101>>>>>>

\* classification_scores after the eight tests, with 2 points for a content
\* keyword and 3 for a filename token
classification_scores_filename3(text, filename) ==
    [k \in 1..Len(ClassifierTypes) |->
        (IF ContainsAny(Lower(text), ClassifierContentKeywords[k]) THEN 2 ELSE 0)
      + (IF ContainsAny(Lower(filename), ClassifierFilenameTokens[k]) THEN 3 ELSE 0)]

\* classification_scores after the eight tests
classification_scores(text, filename) ==
    [k \in 1..Len(ClassifierTypes) |->
        (IF ContainsAny(Lower(text), ClassifierContentKeywords[k]) THEN 3 ELSE 0)
      + (IF ContainsAny(Lower(filename), ClassifierFilenameTokens[k]) THEN 2 ELSE 0)]

\* BestMatch returning the last of the entries with the highest score
BestMatchLast(scores) ==
    CHOOSE k \in DOMAIN scores :
        /\ \A j \in DOMAIN scores : scores[j] <= scores[k]
        /\ \A j \in DOMAIN scores : j > k => scores[j] < scores[k]

\* max(classification_scores.items(), key=...): the first of the entries
\* with the highest score
BestMatch(scores) ==
    CHOOSE k \in DOMAIN scores :
        /\ \A j \in DOMAIN scores : scores[j] <= scores[k]
        /\ \A j \in DOMAIN scores : j < k => scores[j] < scores[k]

ClassifyByScores(scores) ==
    IF scores[BestMatch(scores)] > 0 THEN ClassifierTypes[BestMatch(scores)] ELSE "unknown"

\* _classify_document_intelligently(text, filename)
_classify_document_intelligently(text, filename) ==
    ClassifyByScores(classification_scores(text, filename))

\* _guess_document_type(filename)
_guess_document_type(filename) ==
    IF Contains(Lower(filename), <<99, 111, 109, 109, 101, 114, 99, 105, 97, 108>>) THEN "commercial_registration"
    ELSE IF \/ Contains(Lower(filename), <<110, 97, 116, 105, 111, 110, 97, 108>>)
            \/ Contains(Lower(filename), <<105, 100>>) THEN "national_id"
    ELSE IF Contains(Lower(filename), <<98, 97, 110, 107>>) THEN "bank_statement"
    ELSE IF \/ Contains(Lower(filename), <<116, 97, 120>>)
            \/ Contains(Lower(filename), <<118, 97, 116>>) THEN "tax_certificate"
    ELSE "unknown"

\* str.split() separates at whitespace
IsSpace(c) == c \in {9, 10, 11, 12, 13, 32}

\* the positions where the words of text.split() start
WordStarts(text) ==
    { i \in 1..Len(text) : ~IsSpace(text[i]) /\ (i = 1 \/ IsSpace(text[i - 1])) }

\* the word of text.split() that starts at position i
WordAt(text, i) ==
    SubSeq(text, i,
           CHOOSE j \in i..Len(text) :
               /\ \A k \in i..j : ~IsSpace(text[k])
               /\ (j = Len(text) \/ IsSpace(text[j + 1])))

\* len(set(text.split())) / len(text.split()) > 0.5, for a text with words
DiverseContent(text) ==
    2 * Cardinality({ WordAt(text, i) : i \in WordStarts(text) })
        > Cardinality(WordStarts(text))

\* any(char in text for char in ['-', '/', ':', '(', ')'])
HasStructure(text) == \E i \in 1..Len(text) : text[i] \in {45, 47, 58, 40, 41}

\* x += y when the condition holds
AddIf(condition, x, y) == IF condition THEN FloatAdd(x, y) ELSE x

\* _assess_document_quality(text), for a text with words; the division
\* raises ZeroDivisionError for a text without any
_assess_document_quality(text) ==
    FloatMin(
        AddIf(HasStructure(text),
              AddIf(\E i \in 1..Len(text) : IsDigit(text[i]),
                    AddIf(DiverseContent(text),
                          AddIf(Len(text) > 100, FloatZero, FloatLiteral(3, 10)),
                          FloatLiteral(3, 10)),
                    FloatLiteral(2, 10)),
              FloatLiteral(2, 10)),
        FloatLiteral(1, 1))

\* the characters of a type name of the classifier
ClassifierTypeChars(doc_type) ==
    IF doc_type = "bank_statement" THEN <<98, 97, 110, 107, 95, 115, 116, 97, 116, 101, 109, 101, 110, 116>>
    ELSE DocTypeChars(doc_type)

\* _calculate_confidence with 0.2 for structured content
_calculate_confidence_structure02(text, filename, doc_type) ==
    FloatMin(
        AddIf(HasStructure(text),
              AddIf(Len(text) > 200,
                    AddIf(Contains(Lower(filename), ClassifierTypeChars(doc_type)),
                          FloatLiteral(5, 10), FloatLiteral(2, 10)),
                    FloatLiteral(2, 10)),
              FloatLiteral(2, 10)),
        FloatLiteral(1, 1))

\* _calculate_confidence(text, filename, doc_type)
_calculate_confidence(text, filename, doc_type) ==
    FloatMin(
        AddIf(HasStructure(text),
              AddIf(Len(text) > 200,
                    AddIf(Contains(Lower(filename), ClassifierTypeChars(doc_type)),
                          FloatLiteral(5, 10), FloatLiteral(2, 10)),
                    FloatLiteral(2, 10)),
              FloatLiteral(1, 10)),
        FloatLiteral(1, 1))

\* the keys of the dict _extract_smart_metadata returns (the values the
\* regular expressions find are not part of the model)
_extract_smart_metadata(text, doc_type) ==
    {"extraction_method", "dates_found", "important_numbers"}
        \cup (IF doc_type = "commercial_registration" THEN {"cr_candidates"}
              ELSE IF doc_type = "national_id" THEN {"id_candidates"}
              ELSE {})

\* _generate_compliance_insights(text, doc_type)
_generate_compliance_insights(text, doc_type) ==
    (IF Len(text) < 50
     THEN <<"Document appears to be very short - may be incomplete">> ELSE <<>>)
    \o (IF doc_type = "commercial_registration"
        THEN (IF \/ Contains(Lower(text), <<115, 97, 117, 100, 105>>)
                 \/ Contains(text, <<1575, 1604, 1605, 1605, 1604, 1603, 1577>>)
              THEN <<"Saudi jurisdiction indicators found">> ELSE <<>>)
             \o (IF \E i \in 1..Len(text) : IsDigit(text[i]) THEN <<>>
                 ELSE <<"No registration numbers detected - document may be incomplete">>)
        ELSE IF doc_type = "national_id"
        THEN (IF \E i \in 1..Len(text) : text[i] > 127
              THEN <<"Arabic text detected - good for Saudi ID documents">> ELSE <<>>)
        ELSE IF doc_type = "bank_statement"
        THEN (IF Contains(Lower(text), <<115, 97, 114>>)
              THEN <<"Saudi currency (SAR) detected">> ELSE <<>>)
        ELSE <<>>)

\* the dict _run_enhanced_analysis returns when no step raises
EnhancedAnalysis(text, filename, doc_type) ==
    [document_type   |-> doc_type,
     confidence      |-> _calculate_confidence(text, filename, doc_type),
     quality         |-> _assess_document_quality(text),
     metadata        |-> _extract_smart_metadata(text, doc_type),
     insights        |-> _generate_compliance_insights(text, doc_type),
     analysis_method |-> "agno_enhanced"]

\* _run_enhanced_analysis(text, filename): the except branch is taken when
\* _assess_document_quality divides by the zero words of the text
_run_enhanced_analysis(text, filename) ==
    IF WordStarts(text) = {}
    THEN [document_type   |-> _guess_document_type(filename),
          confidence      |-> FloatLiteral(5, 10),
          quality         |-> FloatLiteral(5, 10),
          error           |-> "division by zero",
          analysis_method |-> "fallback"]
    ELSE EnhancedAnalysis(text, filename, _classify_document_intelligently(text, filename))

\* a call of _run_enhanced_analysis(text, filename)
RunEnhancedAnalysis ==
    /\ ret = None
    /\ request.op = "_run_enhanced_analysis"
    /\ ret' = _run_enhanced_analysis(request.text, request.filename)
    /\ UNCHANGED <<request, kyc_vars, summary_vars, ingest_vars, broker, env_vars>>

\* a paragraph of 241 letters and spaces without keywords, digits or punctuation
FragPadding ==
    <<116, 104, 105, 115, 32, 112, 97, 103, 101, 32, 119, 97, 115, 32, 115,
    99, 97, 110, 110, 101, 100, 32, 102, 114, 111, 109, 32, 116, 104,
    101, 32, 112, 97, 112, 101, 114, 32, 111, 114, 105, 103, 105, 110,
    97, 108, 32, 104, 101, 108, 100, 32, 98, 121, 32, 116, 104, 101, 32,
    98, 114, 97, 110, 99, 104, 32, 97, 110, 100, 32, 116, 104, 101, 32,
    115, 99, 97, 110, 32, 119, 97, 115, 32, 99, 104, 101, 99, 107, 101,
    100, 32, 98, 121, 32, 116, 119, 111, 32, 109, 101, 109, 98, 101, 114,
    115, 32, 111, 102, 32, 116, 104, 101, 32, 111, 110, 98, 111, 97, 114,
    100, 105, 110, 103, 32, 116, 101, 97, 109, 32, 119, 104, 111, 32, 97,
    103, 114, 101, 101, 32, 116, 104, 97, 116, 32, 116, 104, 101, 32, 99,
    111, 112, 121, 32, 115, 104, 111, 119, 115, 32, 116, 104, 101, 32,
    119, 104, 111, 108, 101, 32, 111, 102, 32, 116, 104, 101, 32, 111,
    114, 105, 103, 105, 110, 97, 108, 32, 112, 97, 103, 101, 32, 97, 110,
    100, 32, 116, 104, 97, 116, 32, 110, 111, 32, 112, 97, 114, 116, 32,
    111, 102, 32, 116, 104, 101, 32, 112, 97, 103, 101, 32, 119, 97, 115,
    32, 99, 104, 97, 110, 103, 101, 100, 32, 111, 114, 32, 108, 101, 102,
    116, 32, 111, 117, 116>>

\* "tax_certificate.pdf"
FileTaxCertificate ==
    <<116, 97, 120, 95, 99, 101, 114, 116, 105, 102, 105, 99, 97, 116, 101,
    46, 112, 100, 102>>

\* the extracted texts handed to the analysis: the KYC texts, the same
\* followed by the long paragraph, and a text of whitespace only
AnalysisTexts ==
    KycTexts \cup { text \o FragPadding : text \in KycTexts } \cup { <<32, 10>> }

AnalysisFilenames == KycFilenames \cup {FileTaxCertificate}

InitAnalysis ==
    /\ request \in [op       : {"_run_enhanced_analysis"},
                    text     : AnalysisTexts,
                    filename : AnalysisFilenames]
    /\ ret = None
    /\ kyc_use_database = FALSE
    /\ kyc_is_mock = TRUE
    /\ kyc_validations = <<>>
    /\ kyc_events = <<>>
    /\ summary_use_database = FALSE
    /\ summary_is_mock = TRUE
    /\ memory_summaries = <<>>
    /\ summary_events = <<>>
    /\ IngestIdle
    /\ broker = <<>>
    /\ db_write_fails = FALSE
    /\ kafka_send_fails = FALSE
    /\ knowledge_upsert_fails = FALSE
    /\ now = 0

NextAnalysis == RunEnhancedAnalysis

SpecAnalysis == InitAnalysis /\ [][NextAnalysis]_vars

(***************************************************************************)
(* Document ingestion: files, text extraction, storage, events              *)
(*                                                                          *)
(* A file is a record: its name (the path's basename), whether it exists,   *)
(* its size in bytes, whether its bytes are valid UTF-8, whether PyPDF2     *)
(* reads it, and the text its bytes decode to (for a PDF: the text of its   *)
(* page).                                                                   *)
(***************************************************************************)
MAX_FILE_SIZE == 10 * 1024 * 1024

ALLOWED_EXTENSIONS ==
    {<<46, 112, 100, 102>>,
     <<46, 116, 120, 116>>,
     <<46, 106, 112, 103>>,
     <<46, 106, 112, 101, 103>>,
     <<46, 112, 110, 103>>}

\* the position of the last dot of a filename, 0 when it has none
LastDot(filename) ==
    IF \E i \in 1..Len(filename) : filename[i] = 46
    THEN CHOOSE i \in 1..Len(filename) :
             /\ filename[i] = 46
             /\ \A j \in (i + 1)..Len(filename) : filename[j] # 46
    ELSE 0

\* Path(file_path).suffix.lower() and os.path.splitext(file_path)[1].lower(),
\* which agree on names that do not end in a dot
FileExt(filename) ==
    IF LastDot(filename) <= 1 THEN <<>>
    ELSE Lower(SubSeq(filename, LastDot(filename), Len(filename)))

NotDot(c) == c # 46

\* file_ext.replace('.', '')
FileType(file_ext) == SelectSeq(file_ext, NotDot)

RECURSIVE IntToStr(_)
\* str(n) for n >= 0
IntToStr(n) ==
    IF n < 10 THEN <<48 + n>> ELSE IntToStr(n \div 10) \o <<48 + (n % 10)>>

\* the number of bytes of the UTF-8 encoding of a text of the basic plane
Utf8Length(text) ==
    Len(text) + Cardinality({ i \in 1..Len(text) : text[i] >= 128 })
              + Cardinality({ i \in 1..Len(text) : text[i] >= 2048 })

\* str.strip()
Strip(text) ==
    IF \A i \in 1..Len(text) : IsSpace(text[i]) THEN <<>>
    ELSE SubSeq(text,
                CHOOSE i \in 1..Len(text) :
                    ~IsSpace(text[i]) /\ \A j \in 1..(i - 1) : IsSpace(text[j]),
                CHOOSE i \in 1..Len(text) :
                    ~IsSpace(text[i]) /\ \A j \in (i + 1)..Len(text) : IsSpace(text[j]))

\* "PDF extraction error: EOF marker not found"
MsgPdfError ==
    <<80, 68, 70, 32, 101, 120, 116, 114, 97, 99, 116, 105, 111, 110, 32,
    101, 114, 114, 111, 114, 58, 32, 69, 79, 70, 32, 109, 97, 114, 107,
    101, 114, 32, 110, 111, 116, 32, 102, 111, 117, 110, 100>>

\* "Text extraction failed: 'utf-8' codec can't decode byte 0xff in position 0: invalid start byte"
MsgDecodeFailed ==
    <<84, 101, 120, 116, 32, 101, 120, 116, 114, 97, 99, 116, 105, 111,
    110, 32, 102, 97, 105, 108, 101, 100, 58, 32, 39, 117, 116, 102, 45,
    56, 39, 32, 99, 111, 100, 101, 99, 32, 99, 97, 110, 39, 116, 32, 100,
    101, 99, 111, 100, 101, 32, 98, 121, 116, 101, 32, 48, 120, 102, 102,
    32, 105, 110, 32, 112, 111, 115, 105, 116, 105, 111, 110, 32, 48, 58,
    32, 105, 110, 118, 97, 108, 105, 100, 32, 115, 116, 97, 114, 116, 32,
    98, 121, 116, 101>>

\* "OCR text extraction not yet implemented. File size: "
MsgOcrPrefix ==
    <<79, 67, 82, 32, 116, 101, 120, 116, 32, 101, 120, 116, 114, 97, 99,
    116, 105, 111, 110, 32, 110, 111, 116, 32, 121, 101, 116, 32, 105,
    109, 112, 108, 101, 109, 101, 110, 116, 101, 100, 46, 32, 70, 105,
    108, 101, 32, 115, 105, 122, 101, 58, 32>>

\* " bytes. Please install pytesseract for image processing."
MsgOcrSuffix ==
    <<32, 98, 121, 116, 101, 115, 46, 32, 80, 108, 101, 97, 115, 101, 32,
    105, 110, 115, 116, 97, 108, 108, 32, 112, 121, 116, 101, 115, 115,
    101, 114, 97, 99, 116, 32, 102, 111, 114, 32, 105, 109, 97, 103, 101,
    32, 112, 114, 111, 99, 101, 115, 115, 105, 110, 103, 46>>

\* "Text extraction not implemented for "
MsgNotImplemented ==
    <<84, 101, 120, 116, 32, 101, 120, 116, 114, 97, 99, 116, 105, 111,
    110, 32, 110, 111, 116, 32, 105, 109, 112, 108, 101, 109, 101, 110,
    116, 101, 100, 32, 102, 111, 114, 32>>

\* "Unsupported file type: "
MsgUnsupported ==
    <<85, 110, 115, 117, 112, 112, 111, 114, 116, 101, 100, 32, 102, 105,
    108, 101, 32, 116, 121, 112, 101, 58, 32>>

\* _extract_pdf_text(file_content): the text of the page and a newline,
\* stripped; the message of the exception when PyPDF2 cannot read the bytes
_extract_pdf_text(file) ==
    IF file.pdf_readable THEN Strip(file.text \o <<10>>) ELSE MsgPdfError

\* _extract_image_text(file_content)
_extract_image_text(file) == MsgOcrPrefix \o IntToStr(file.size) \o MsgOcrSuffix

\* SimpleDocumentIngestionAgent._extract_text(file_content, file_ext): an
\* exception of the decoding is caught and returned as text
_extract_text(file, file_ext) ==
    IF file_ext = <<46, 112, 100, 102>> THEN _extract_pdf_text(file)
    ELSE IF file_ext = <<46, 116, 120, 116>>
    THEN (IF file.valid_utf8 THEN file.text ELSE MsgDecodeFailed)
    ELSE IF file_ext \in {<<46, 106, 112, 103>>, <<46, 106, 112, 101, 103>>, <<46, 112, 110, 103>>}
    THEN _extract_image_text(file)
    ELSE MsgNotImplemented \o file_ext

\* the extraction of _basic_document_processing raises: file_content.decode
\* is not guarded there
BasicExtractionRaises(file, file_ext) ==
    file_ext = <<46, 116, 120, 116>> /\ ~file.valid_utf8

\* the extraction of _basic_document_processing, when it does not raise
BasicExtractedText(file, file_ext) ==
    IF file_ext = <<46, 112, 100, 102>> THEN _extract_pdf_text(file)
    ELSE IF file_ext = <<46, 116, 120, 116>> THEN file.text
    ELSE MsgUnsupported \o file_ext

\* hashlib.md5(f"{file_path}_{customer_id}_{now}").hexdigest(): the digest
\* is determined by the three parts, and stands for them
_generate_document_id(file_path, customer_id, clock) == <<file_path, customer_id, clock>>

\* SimpleDocumentIngestionAgent._guess_document_type(filename)
Simple_guess_document_type(filename) ==
    IF \/ Contains(Lower(filename), <<99, 111, 109, 109, 101, 114, 99, 105, 97, 108>>)
       \/ Contains(Lower(filename), <<114, 101, 103, 105, 115, 116, 114, 97, 116, 105, 111, 110>>) THEN "commercial_registration"
    ELSE IF \/ Contains(Lower(filename), <<110, 97, 116, 105, 111, 110, 97, 108>>)
            \/ Contains(Lower(filename), <<105, 100>>) THEN "national_id"
    ELSE IF Contains(Lower(filename), <<98, 97, 110, 107>>) THEN "bank_statement"
    ELSE IF Contains(Lower(filename), <<116, 97, 120>>) THEN "tax_certificate"
    ELSE "unknown"

\* doc_data of process_document
SimpleDocData(doc_id, filename, file_ext, customer_id, extracted_text, clock) ==
    [id                |-> doc_id,
     filename          |-> filename,
     file_type         |-> FileType(file_ext),
     customer_id       |-> customer_id,
     extracted_text    |-> extracted_text,
     text_length       |-> Len(extracted_text),
     processed         |-> TRUE,
     processing_status |-> "completed",
     upload_time       |-> clock]

\* the Document row SimpleDocumentIngestionAgent._store_in_database adds
SimpleDocumentRow(doc_data) ==
    [id                |-> doc_data.id,
     filename          |-> doc_data.filename,
     file_type         |-> doc_data.file_type,
     customer_id       |-> doc_data.customer_id,
     extracted_text    |-> doc_data.extracted_text,
     text_length       |-> doc_data.text_length,
     processed         |-> doc_data.processed,
     processing_status |-> doc_data.processing_status]

\* the value of the document-processed event
DocumentProcessedEvent(doc_data) ==
    [document_id  |-> doc_data.id,
     filename     |-> doc_data.filename,
     customer_id  |-> doc_data.customer_id,
     processed_at |-> doc_data.upload_time,
     text_length  |-> doc_data.text_length,
     status       |-> "success"]

\* the value of the kyc-validation-requested event
ValidationRequestedEvent(doc_data, clock) ==
    [document_id   |-> doc_data.id,
     customer_id   |-> doc_data.customer_id,
     filename      |-> doc_data.filename,
     document_type |-> Simple_guess_document_type(doc_data.filename),
     requested_at  |-> clock]

\* the dict process_document returns on success
SimpleSuccess(doc_data) ==
    [status       |-> "success",
     document_id  |-> doc_data.id,
     filename     |-> doc_data.filename,
     file_type    |-> doc_data.file_type,
     text_length  |-> doc_data.text_length,
     customer_id  |-> doc_data.customer_id,
     processed_at |-> doc_data.upload_time,
     message      |-> "Document processed successfully"]

\* the exception process_document catches, "" when it raises none: the three
\* input checks in their order, then the database write, which
\* _store_in_database logs and raises again
ProcessDocumentException(file) ==
    IF ~file.exists THEN "File not found"
    ELSE IF file.size > MAX_FILE_SIZE THEN "File too large"
    ELSE IF FileExt(file.filename) \notin ALLOWED_EXTENSIONS THEN "File type not supported"
    ELSE IF ingest_use_database /\ db_write_fails THEN "Database storage error"
    ELSE IF /\ ingest_use_database
            /\ \E k \in 1..Len(documents) :
                   documents[k].id = _generate_document_id(file.filename,
                                                           request.customer_id, now)
         THEN \* the primary key is taken: commit raises IntegrityError
              "Database storage error"
    ELSE ""

\* the storage and the two events of process_document; the mock handler
\* raises on the first event when its value does not serialise
StoreAndEmit(doc_data) ==
    /\ documents' = IF ingest_use_database
                    THEN Append(documents, SimpleDocumentRow(doc_data))
                    ELSE documents
    /\ memory_storage' = IF ingest_use_database THEN memory_storage
                         ELSE (doc_data.id :> doc_data) @@ memory_storage
    /\ ingest_events' =
           IF ingest_is_mock /\ JsonDumpsRaises(request)
           THEN send_event(ingest_is_mock, ingest_events, "document-processed",
                           doc_data.id, DocumentProcessedEvent(doc_data))
           ELSE send_event(ingest_is_mock,
                           send_event(ingest_is_mock, ingest_events, "document-processed",
                                      doc_data.id, DocumentProcessedEvent(doc_data)),
                           "kyc-validation-requested", doc_data.id,
                           ValidationRequestedEvent(doc_data, now))
    /\ broker' =
           deliver(ingest_is_mock, kafka_send_fails \/ JsonDumpsRaises(request),
                   deliver(ingest_is_mock, kafka_send_fails \/ JsonDumpsRaises(request), broker, "document-processed",
                           doc_data.id, DocumentProcessedEvent(doc_data)),
                   "kyc-validation-requested", doc_data.id,
                   ValidationRequestedEvent(doc_data, now))
    /\ ret' = IF ingest_is_mock /\ JsonDumpsRaises(request)
              THEN [status       |-> "error",
                    filename     |-> doc_data.filename,
                    error        |-> "TypeError",
                    processed_at |-> now]
              ELSE SimpleSuccess(doc_data)

\* SimpleDocumentIngestionAgent.process_document(file_path, customer_id)
ProcessDocument ==
    /\ ret = None
    /\ request.op = "process_document"
    /\ IF ProcessDocumentException(request.file) # ""
       THEN /\ ret' = [status       |-> "error",
                       filename     |-> IF request.file.exists
                                        THEN request.file.filename ELSE StrUnknown,
                       error        |-> ProcessDocumentException(request.file),
                       processed_at |-> now]
            /\ UNCHANGED <<documents, memory_storage, ingest_events, broker>>
       ELSE StoreAndEmit(SimpleDocData(
                _generate_document_id(request.file.filename, request.customer_id, now),
                request.file.filename, FileExt(request.file.filename),
                request.customer_id,
                _extract_text(request.file, FileExt(request.file.filename)), now))
    /\ UNCHANGED <<request, kyc_vars, summary_vars, ingest_use_database, ingest_is_mock,
                   agno_enabled, knowledge, env_vars>>

\* the dict _basic_document_processing returns
BasicResult(doc_id, filename, file_ext, customer_id, extracted_text, clock) ==
    [status         |-> "success",
     document_id    |-> doc_id,
     filename       |-> filename,
     file_type      |-> FileType(file_ext),
     customer_id    |-> customer_id,
     extracted_text |-> extracted_text,
     text_length    |-> Len(extracted_text),
     processed_at   |-> clock]

\* result.update({...}) with the enhanced analysis
WithAnalysis(result, enhanced_analysis) ==
    [enhanced_analysis        |-> enhanced_analysis,
     document_type_confidence |-> enhanced_analysis.confidence,
     quality_assessment       |-> enhanced_analysis.quality,
     agno_enhanced            |-> TRUE] @@ result

\* Enriched with a failure of the analysis reported as the document's status
EnrichedFailing(result, enabled) ==
    IF enabled
    THEN (IF WordStarts(result.extracted_text) = {}
          THEN [status |-> "error"] @@ [agno_enhanced |-> FALSE] @@ result
          ELSE WithAnalysis(result, _run_enhanced_analysis(result.extracted_text,
                                                           result.filename)))
    ELSE [agno_enhanced |-> FALSE] @@ result

\* the result of process_document_enhanced after the enrichment branch
Enriched(result, enabled) ==
    IF enabled
    THEN WithAnalysis(result, _run_enhanced_analysis(result.extracted_text, result.filename))
    ELSE [agno_enhanced |-> FALSE] @@ result

RECURSIVE ChunksFrom(_, _)
\* the loop of _chunk_text with chunk_size 1000 and overlap 200
ChunksFrom(text, start) ==
    IF start >= Len(text) THEN <<>>
    ELSE <<SubSeq(text, start + 1,
                  IF start + 1000 < Len(text) THEN start + 1000 ELSE Len(text))>>
         \o ChunksFrom(text, start + 1000 - 200)

\* _chunk_text(text)
_chunk_text(text) == IF Len(text) <= 1000 THEN <<text>> ELSE ChunksFrom(text, 0)

\* the entries _store_in_vector_knowledge upserts, by chunk id
KnowledgeEntries(result, chunks) ==
    [id \in { <<result.document_id, i>> : i \in 0..(Len(chunks) - 1) } |->
        [text     |-> chunks[id[2] + 1],
         metadata |-> [document_id   |-> result.document_id,
                       filename      |-> result.filename,
                       customer_id   |-> result.customer_id,
                       chunk_index   |-> id[2],
                       total_chunks  |-> Len(chunks),
                       document_type |-> result.enhanced_analysis.document_type,
                       quality_score |-> result.enhanced_analysis.quality,
                       processed_at  |-> result.processed_at]]]

\* _store_in_vector_knowledge(result): nothing without a knowledge base; an
\* exception of upsert is caught and logged
_store_in_vector_knowledge(base, upsert_fails, result) ==
    IF base = None \/ upsert_fails THEN base
    ELSE [entries |-> KnowledgeEntries(result, _chunk_text(result.extracted_text))
                      @@ base.entries]

\* the Document row AgnoDocumentIngestionAgent._store_in_database adds
AgnoDocumentRow(doc_data) ==
    [id                |-> doc_data.document_id,
     filename          |-> doc_data.filename,
     file_type         |-> doc_data.file_type,
     customer_id       |-> doc_data.customer_id,
     extracted_text    |-> doc_data.extracted_text,
     text_length       |-> doc_data.text_length,
     processed         |-> TRUE,
     processing_status |-> "completed"]

\* the value of the document-processed-enhanced event
EnhancedEvent(result) ==
    [document_id   |-> result.document_id,
     filename      |-> result.filename,
     customer_id   |-> result.customer_id,
     processed_at  |-> result.processed_at,
     text_length   |-> result.text_length,
     agno_enhanced |-> result.agno_enhanced,
     document_type |-> IF "enhanced_analysis" \in DOMAIN result
                       THEN result.enhanced_analysis.document_type ELSE "unknown",
     confidence    |-> IF "document_type_confidence" \in DOMAIN result
                       THEN result.document_type_confidence ELSE FloatLiteral(5, 10),
     quality_score |-> IF "quality_assessment" \in DOMAIN result
                       THEN result.quality_assessment ELSE FloatLiteral(5, 10),
     status        |-> "success"]

\* the exception process_document_enhanced catches, "" when none is raised
EnhancedException(file) ==
    IF ~file.exists THEN "File not found"
    ELSE IF BasicExtractionRaises(file, FileExt(file.filename)) THEN "UnicodeDecodeError"
    ELSE ""

\* process_document_enhanced after the basic processing: vector storage,
\* storage of the document (a failed database write is logged), the event
EnhanceStoreAndEmit(result) ==
    /\ knowledge' = IF agno_enabled
                    THEN _store_in_vector_knowledge(knowledge, knowledge_upsert_fails, result)
                    ELSE knowledge
    /\ documents' = IF /\ ingest_use_database
                       /\ ~db_write_fails
                       /\ \A k \in 1..Len(documents) : documents[k].id # result.document_id
                    THEN Append(documents, AgnoDocumentRow(result))
                    ELSE documents
    /\ memory_storage' = IF ingest_use_database THEN memory_storage
                         ELSE (result.document_id :> result) @@ memory_storage
    /\ ingest_events' = send_event(ingest_is_mock, ingest_events,
                                   "document-processed-enhanced",
                                   result.document_id, EnhancedEvent(result))
    /\ broker' = deliver(ingest_is_mock, kafka_send_fails \/ JsonDumpsRaises(request), broker,
                         "document-processed-enhanced",
                         result.document_id, EnhancedEvent(result))
    /\ ret' = IF ingest_is_mock /\ JsonDumpsRaises(request)
              THEN [filename     |-> result.filename,
                    status       |-> "error",
                    error        |-> "TypeError",
                    processed_at |-> now]
              ELSE result

\* AgnoDocumentIngestionAgent.process_document_enhanced(file_path, customer_id)
ProcessDocumentEnhanced ==
    /\ ret = None
    /\ request.op = "process_document_enhanced"
    /\ IF EnhancedException(request.file) # ""
       THEN /\ ret' = [filename     |-> request.file.filename,
                       status       |-> "error",
                       error        |-> EnhancedException(request.file),
                       processed_at |-> now]
            /\ UNCHANGED <<knowledge, documents, memory_storage, ingest_events, broker>>
       ELSE EnhanceStoreAndEmit(Enriched(BasicResult(
                _generate_document_id(request.file.filename, request.customer_id, now),
                request.file.filename, FileExt(request.file.filename),
                request.customer_id,
                BasicExtractedText(request.file, FileExt(request.file.filename)), now),
                agno_enabled))
    /\ UNCHANGED <<request, kyc_vars, summary_vars, ingest_use_database, ingest_is_mock,
                   agno_enabled, env_vars>>

\* "scan.jpg"
FileScan ==
    <<115, 99, 97, 110, 46, 106, 112, 103>>

\* "contract.docx"
FileContract ==
    <<99, 111, 110, 116, 114, 97, 99, 116, 46, 100, 111, 99, 120>>

\* the texts of the files: none, the commercial registration of scenario A,
\* an identity card, a bank statement, and a dated long paragraph
IngestTexts ==
    { JoinFragments(KycFragments, chosen, 1) : chosen \in {{}, {1, 2, 3, 4, 5}, {6}, {7}} }
        \cup { FragIssueDate \o <<10>> \o FragPadding }

\* a text file holding the UTF-8 encoding of a text
TextFile(filename, text) ==
    [filename |-> filename, exists |-> TRUE, size |-> Utf8Length(text),
     valid_utf8 |-> TRUE, pdf_readable |-> FALSE, text |-> text]

\* a file of bytes that are no UTF-8 text; readable marks a PDF that PyPDF2
\* reads, with the text of its page
BinaryFile(filename, size, readable, text) ==
    [filename |-> filename, exists |-> TRUE, size |-> size,
     valid_utf8 |-> FALSE, pdf_readable |-> readable, text |-> text]

\* the files handed to the ingestion agents: text files, a text file of
\* bytes that do not decode, PDFs (readable or not) and images up to and
\* above MAX_FILE_SIZE, a file of a type that is not allowed, a missing file
Files ==
    { TextFile(filename, text) :
        filename \in {FileDocument, FileCommercialRegistration, FileNationalId},
        text \in IngestTexts }
    \cup { BinaryFile(FileDocument, 4, FALSE, <<>>) }
    \cup { BinaryFile(filename, size, TRUE, text) :
             filename \in {FileBankStatement, FileVatReturn},
             size \in {2048, MAX_FILE_SIZE, MAX_FILE_SIZE + 1},
             text \in IngestTexts }
    \cup { BinaryFile(FileBankStatement, 2048, FALSE, <<>>) }
    \cup { BinaryFile(FileScan, size, FALSE, <<>>) : size \in {2048, MAX_FILE_SIZE + 1} }
    \cup { BinaryFile(FileContract, 2048, FALSE, <<>>) }
    \cup { [filename |-> FileDocument, exists |-> FALSE, size |-> 0,
            valid_utf8 |-> FALSE, pdf_readable |-> FALSE, text |-> <<>>] }

InitIngest ==
    /\ request \in [op          : {"process_document", "process_document_enhanced"},
                    file        : Files,
                    customer_id : {"CUST123"}]
    /\ ret = None
    /\ kyc_use_database = FALSE
    /\ kyc_is_mock = TRUE
    /\ kyc_validations = <<>>
    /\ kyc_events = <<>>
    /\ summary_use_database = FALSE
    /\ summary_is_mock = TRUE
    /\ memory_summaries = <<>>
    /\ summary_events = <<>>
    /\ ingest_use_database \in BOOLEAN
    /\ ingest_is_mock \in BOOLEAN
    /\ memory_storage = <<>>
    /\ documents = <<>>
    /\ ingest_events = <<>>
    /\ agno_enabled \in (IF request.op = "process_document_enhanced"
                          THEN BOOLEAN ELSE {FALSE})
    /\ knowledge \in (IF agno_enabled THEN {None, [entries |-> <<>>]} ELSE {None})
    /\ broker = <<>>
    /\ db_write_fails \in (IF ingest_use_database THEN BOOLEAN ELSE {FALSE})
    /\ kafka_send_fails \in (IF ingest_is_mock THEN {FALSE} ELSE BOOLEAN)
    /\ knowledge_upsert_fails \in (IF knowledge = None THEN {FALSE} ELSE BOOLEAN)
    /\ now = 0

NextIngest == ProcessDocument \/ ProcessDocumentEnhanced

SpecIngest == InitIngest /\ [][NextIngest]_vars

(***************************************************************************)
(* ComplianceSummaryAgent (compliance_summary/summary_agent.py)             *)
(***************************************************************************)
\* self.required_documents, in the order of its keys
RequiredDocumentTypes ==
    <<"commercial_registration", "national_id", "bank_statements", "tax_certificate">>

required_documents ==
    [commercial_registration |->
        [name |-> "Commercial Registration Certificate", priority |-> "Critical"],
     national_id |->
        [name |-> "National ID of Authorized Signatory", priority |-> "Critical"],
     bank_statements |->
        [name |-> "Bank Statements", priority |-> "High"],
     tax_certificate |->
        [name |-> "Tax Registration Certificate", priority |-> "High"]]

\* a result that is not a dict (None in the list) has no .get
IsDict(result) == "none" \notin DOMAIN result

CriticalKeywords == <<KwNumberNotFound, KwNotDetected, KwNotFound>>

IsCriticalIssue(issue) == ContainsAny(Lower(issue), CriticalKeywords)

DocumentEntry(result) ==
    [filename    |-> Get(result, "filename", StrUnknown),
     is_valid    |-> Get(result, "is_valid", FALSE),
     score       |-> Get(result, "validation_score", 0),
     issues      |-> Get(result, "issues", <<>>),
     document_id |-> Get(result, "document_id", "Unknown")]

\* the grouping loop of _analyze_validation_results: documents_by_type
DocumentsByType(validation_results) ==
    LET Indices == 1..Len(validation_results)
        TypeOf(result) == Get(result, "document_type", "unknown")
    IN  [t \in {TypeOf(validation_results[i]) : i \in Indices} |->
            LET OfType(result) == TypeOf(result) = t
                group == SelectSeq(validation_results, OfType)
            IN  [j \in 1..Len(group) |-> DocumentEntry(group[j])]]

\* MissingDocuments that counts a type as present only when one of its
\* documents is valid
MissingDocumentsUnlessValid(documents_by_type) ==
    LET IsMissing(req_doc_type) ==
            \/ req_doc_type \notin DOMAIN documents_by_type
            \/ \A j \in 1..Len(documents_by_type[req_doc_type]) :
                  ~documents_by_type[req_doc_type][j].is_valid
    IN  SelectSeq(RequiredDocumentTypes, IsMissing)

\* the coverage loop of _analyze_validation_results: missing_documents
MissingDocuments(documents_by_type) ==
    LET IsMissing(req_doc_type) == req_doc_type \notin DOMAIN documents_by_type
    IN  SelectSeq(RequiredDocumentTypes, IsMissing)

_analyze_validation_results(validation_results) ==
    LET total_documents == Len(validation_results)
        IsValidResult(result) == Get(result, "is_valid", FALSE)
        valid_documents == Len(SelectSeq(validation_results, IsValidResult))
        Indices == 1..Len(validation_results)
        validation_scores ==
            [i \in Indices |-> Get(validation_results[i], "validation_score", 0)]
        all_issues ==
            Concat([i \in Indices |-> Get(validation_results[i], "issues", <<>>)])
        documents_by_type == DocumentsByType(validation_results)
        avg_score ==
            IF total_documents > 0
            THEN IntTrueDiv(SumSeq(validation_scores), total_documents)
            ELSE FloatZero
        critical_issues == SelectSeq(all_issues, IsCriticalIssue)
        IsMinor(issue) == \A k \in 1..Len(critical_issues) : critical_issues[k] # issue
        minor_issues == SelectSeq(all_issues, IsMinor)
    IN  [total_documents   |-> total_documents,
         valid_documents   |-> valid_documents,
         validation_rate   |-> IF total_documents > 0
                               THEN IntTrueDiv(valid_documents, total_documents)
                               ELSE FloatZero,
         average_score     |-> avg_score,
         documents_by_type |-> documents_by_type,
         missing_documents |-> MissingDocuments(documents_by_type),
         critical_issues   |-> critical_issues,
         minor_issues      |-> minor_issues,
         required_documents_coverage |->
             IntTrueDiv(Cardinality(DOMAIN documents_by_type),
                        Len(RequiredDocumentTypes))]

\* DocumentWeight with bank_statements weighted 0.3
DocumentWeightBank03(doc_type) ==
    IF doc_type \in {"commercial_registration", "national_id", "bank_statements"} THEN FloatLiteral(3, 10)
    ELSE IF doc_type \in {"bank_statements", "tax_certificate"} THEN FloatLiteral(2, 10)
    ELSE FloatLiteral(1, 10)

\* weights.get(doc_type, 0.1)
DocumentWeight(doc_type) ==
    IF doc_type \in {"commercial_registration", "national_id"} THEN FloatLiteral(3, 10)
    ELSE IF doc_type \in {"bank_statements", "tax_certificate"} THEN FloatLiteral(2, 10)
    ELSE FloatLiteral(1, 10)

RECURSIVE WeightedLoopUnitWeight(_, _, _, _)
\* WeightedLoop that adds 1 to total_weight for every result
WeightedLoopUnitWeight(validation_results, i, weighted_score, total_weight) ==
    IF i > Len(validation_results) THEN <<weighted_score, total_weight>>
    ELSE LET result   == validation_results[i]
             doc_type == Get(result, "document_type", "unknown")
             score    == Get(result, "validation_score", 0)
             weight   == DocumentWeight(doc_type)
         IN  WeightedLoopUnitWeight(validation_results, i + 1,
                          FloatAdd(weighted_score, FloatMulInt(score, weight)),
                          FloatAdd(total_weight, FloatLiteral(1, 1)))

RECURSIVE WeightedLoop(_, _, _, _)
\* the for loop of _calculate_compliance_score from result i on:
\* <<weighted_score, total_weight>>
WeightedLoop(validation_results, i, weighted_score, total_weight) ==
    IF i > Len(validation_results) THEN <<weighted_score, total_weight>>
    ELSE LET result   == validation_results[i]
             doc_type == Get(result, "document_type", "unknown")
             score    == Get(result, "validation_score", 0)
             weight   == DocumentWeight(doc_type)
         IN  WeightedLoop(validation_results, i + 1,
                          FloatAdd(weighted_score, FloatMulInt(score, weight)),
                          FloatAdd(total_weight, weight))

_calculate_compliance_score(validation_results) ==
    IF validation_results = <<>> THEN FloatZero
    ELSE LET sums == WeightedLoop(validation_results, 1, FloatZero, FloatZero)
         IN  IF FloatIsPositive(sums[2]) THEN FloatDiv(sums[1], sums[2]) ELSE FloatZero

\* _determine_compliance_status without the critical-missing cap
_determine_compliance_status_by_score(compliance_score, analysis) ==
    LET missing == analysis.missing_documents
        missing_critical ==
            \E k \in 1..Len(missing) : missing[k] \in {"commercial_registration", "national_id"}
    IN  IF FloatGeqInt(compliance_score, 90) THEN "FULLY_COMPLIANT"
        ELSE IF FloatGeqInt(compliance_score, 75) THEN "MOSTLY_COMPLIANT"
        ELSE IF FloatGeqInt(compliance_score, 60) THEN "PARTIALLY_COMPLIANT"
        ELSE "NON_COMPLIANT"

\* _determine_compliance_status with MOSTLY_COMPLIANT from 70
_determine_compliance_status_mostly70(compliance_score, analysis) ==
    LET missing == analysis.missing_documents
        missing_critical ==
            \E k \in 1..Len(missing) : missing[k] \in {"commercial_registration", "national_id"}
    IN  IF FloatGeqInt(compliance_score, 90) /\ ~missing_critical THEN "FULLY_COMPLIANT"
        ELSE IF FloatGeqInt(compliance_score, 70) /\ ~missing_critical THEN "MOSTLY_COMPLIANT"
        ELSE IF FloatGeqInt(compliance_score, 60) THEN "PARTIALLY_COMPLIANT"
        ELSE "NON_COMPLIANT"

_determine_compliance_status(compliance_score, analysis) ==
    LET missing == analysis.missing_documents
        missing_critical ==
            \E k \in 1..Len(missing) : missing[k] \in {"commercial_registration", "national_id"}
    IN  IF FloatGeqInt(compliance_score, 90) /\ ~missing_critical THEN "FULLY_COMPLIANT"
        ELSE IF FloatGeqInt(compliance_score, 75) /\ ~missing_critical THEN "MOSTLY_COMPLIANT"
        ELSE IF FloatGeqInt(compliance_score, 60) THEN "PARTIALLY_COMPLIANT"
        ELSE "NON_COMPLIANT"

\* _generate_recommendations with the score entry appended before the
\* critical-issues entry
_generate_recommendations_score_first(analysis, compliance_score) ==
    LET missing == analysis.missing_documents
        for_missing ==
            [k \in 1..Len(missing) |->
                [type     |-> "MISSING_DOCUMENT",
                 priority |-> required_documents[missing[k]].priority,
                 title    |-> <<"Submit", required_documents[missing[k]].name>>]]
        for_critical ==
            IF analysis.critical_issues # <<>>
            THEN <<[type     |-> "CRITICAL_ISSUES",
                    priority |-> "Critical",
                    title    |-> <<"Resolve critical issues", Len(analysis.critical_issues)>>]>>
            ELSE <<>>
        for_score ==
            IF FloatLtInt(compliance_score, 70)
            THEN <<[type     |-> "OVERALL_COMPLIANCE",
                    priority |-> "High",
                    title    |-> <<"Improve overall compliance score">>]>>
            ELSE <<>>
    IN  for_missing \o for_score \o for_critical

_generate_recommendations(analysis, compliance_score) ==
    LET missing == analysis.missing_documents
        for_missing ==
            [k \in 1..Len(missing) |->
                [type     |-> "MISSING_DOCUMENT",
                 priority |-> required_documents[missing[k]].priority,
                 title    |-> <<"Submit", required_documents[missing[k]].name>>]]
        for_critical ==
            IF analysis.critical_issues # <<>>
            THEN <<[type     |-> "CRITICAL_ISSUES",
                    priority |-> "Critical",
                    title    |-> <<"Resolve critical issues", Len(analysis.critical_issues)>>]>>
            ELSE <<>>
        for_score ==
            IF FloatLtInt(compliance_score, 70)
            THEN <<[type     |-> "OVERALL_COMPLIANCE",
                    priority |-> "High",
                    title    |-> <<"Improve overall compliance score">>]>>
            ELSE <<>>
    IN  for_missing \o for_critical \o for_score

_determine_next_steps(compliance_status) ==
    IF compliance_status = "FULLY_COMPLIANT"
    THEN <<"Auto-approve for account opening", "Send welcome package to customer",
           "Schedule account setup call", "Generate compliance certificate">>
    ELSE IF compliance_status = "MOSTLY_COMPLIANT"
    THEN <<"Route to compliance officer for review", "Schedule verification call with customer",
           "Prepare conditional approval", "Request minor document corrections">>
    ELSE IF compliance_status = "PARTIALLY_COMPLIANT"
    THEN <<"Request missing documents", "Schedule enhanced due diligence review",
           "Contact customer for clarification", "Hold application pending improvements">>
    ELSE <<"Reject application with detailed feedback", "Send rejection letter with requirements",
           "Provide improvement roadmap", "Offer consultation call">>

_get_sama_requirements_status(analysis) ==
    [doc_type \in DOMAIN required_documents |->
        IF doc_type \in DOMAIN analysis.documents_by_type
        THEN LET doc_results == analysis.documents_by_type[doc_type]
                 IsValidDoc(doc) == doc.is_valid
                 valid_docs == SelectSeq(doc_results, IsValidDoc)
             IN  [name      |-> required_documents[doc_type].name,
                  status    |-> IF valid_docs # <<>> THEN "SATISFIED" ELSE "FAILED",
                  submitted |-> Len(doc_results),
                  valid     |-> Len(valid_docs),
                  priority  |-> required_documents[doc_type].priority]
        ELSE [name      |-> required_documents[doc_type].name,
              status    |-> "MISSING",
              submitted |-> 0,
              valid     |-> 0,
              priority  |-> required_documents[doc_type].priority]]

\* the summary built by the try block of generate_compliance_summary (the
\* timestamp and the formatted summary_text are left out)
ComplianceSummary(customer_id, validation_results) ==
    LET analysis          == _analyze_validation_results(validation_results)
        compliance_score  == _calculate_compliance_score(validation_results)
        compliance_status == _determine_compliance_status(compliance_score, analysis)
    IN  [customer_id       |-> customer_id,
         compliance_score  |-> compliance_score,
         compliance_status |-> compliance_status,
         document_analysis |-> analysis,
         recommendations   |-> _generate_recommendations(analysis, compliance_score),
         next_steps        |-> _determine_next_steps(compliance_status),
         sama_requirements |-> _get_sama_requirements_status(analysis)]

\* Raises for code that reads result['validation_score'] without a default
RaisesOnMissingScore(validation_results) ==
    \E i \in 1..Len(validation_results) :
        \/ ~IsDict(validation_results[i])
        \/ "validation_score" \notin DOMAIN validation_results[i]

\* whether the try block of generate_compliance_summary raises: result.get
\* fails on a result that is not a dict; a missing key never raises
Raises(validation_results) ==
    \E i \in 1..Len(validation_results) : ~IsDict(validation_results[i])

\* generate_compliance_summary(customer_id, validation_results)
GenerateComplianceSummary ==
    /\ ret = None
    /\ request.op = "generate_compliance_summary"
    /\ LET customer_id        == request.customer_id
           validation_results == request.validation_results
       IN  IF Raises(validation_results)
           THEN \* the except branch
                /\ ret' = [customer_id |-> customer_id, error |-> "AttributeError"]
                /\ UNCHANGED <<memory_summaries, summary_events, broker>>
           ELSE LET summary == ComplianceSummary(customer_id, validation_results)
                IN  /\ memory_summaries' =
                           IF summary_use_database THEN memory_summaries
                           ELSE (customer_id :> summary) @@ memory_summaries
                    /\ summary_events' =
                           send_event(summary_is_mock, summary_events,
                                      "compliance-summary-generated", customer_id,
                                      [customer_id       |-> customer_id,
                                       compliance_score  |-> summary.compliance_score,
                                       compliance_status |-> summary.compliance_status,
                                       total_documents   |-> Len(validation_results),
                                       valid_documents   |-> summary.document_analysis.valid_documents])
                    /\ broker' =
                           deliver(summary_is_mock, kafka_send_fails \/ JsonDumpsRaises(request), broker,
                                   "compliance-summary-generated", customer_id,
                                   [customer_id       |-> customer_id,
                                    compliance_score  |-> summary.compliance_score,
                                    compliance_status |-> summary.compliance_status,
                                    total_documents   |-> Len(validation_results),
                                    valid_documents   |-> summary.document_analysis.valid_documents])
                    /\ ret' = IF summary_is_mock /\ JsonDumpsRaises(request)
                              THEN [customer_id |-> customer_id, error |-> "TypeError"]
                              ELSE summary
    /\ UNCHANGED <<request, kyc_vars, summary_use_database, summary_is_mock,
                   ingest_vars, env_vars>>

(***************************************************************************)
(* The aggregator on bounded result sets                                    *)
(***************************************************************************)
MaxResults == 3

\* a validation result as validate_kyc_document returns it and as
\* test_compliance_summary_agent writes it
ValidationResult(document_id, doc_type, score, issues, recommendations) ==
    [document_id      |-> document_id,
     customer_id      |-> "CUST123",
     document_type    |-> doc_type,
     is_valid         |-> score >= 70,
     validation_score |-> score,
     issues           |-> issues,
     recommendations  |-> recommendations]

\* the three results of test_compliance_summary_agent
SampleCr95 == ValidationResult("doc1", "commercial_registration", 95, <<>>, <<>>)

SampleNid100 == ValidationResult("doc2", "national_id", 100, <<>>, <<>>)

SampleBank60 ==
    ValidationResult("doc3", "bank_statements", 60,
                     <<IssueAccountNotVisible>>, <<RecAccount>>)

\* a result with none of document_type, validation_score, is_valid, issues
SampleMissingFields == [document_id |-> "doc9"]

SampleResults ==
    { SampleCr95, SampleNid100, SampleBank60,
      ValidationResult("doc4", "commercial_registration", 100, <<>>, <<>>),
      ValidationResult("doc5", "national_id", 70, <<IssueArabic>>, <<RecArabic>>),
      ValidationResult("doc6", "bank_statements", 100, <<>>, <<>>),
      ValidationResult("doc7", "tax_certificate", 100, <<>>, <<>>),
      ValidationResult("doc8", "tax_certificate", 35,
                       <<IssueTaxKeywords, IssueValidity>>, <<>>),
      ValidationResult("doc10", "unknown", 0,
                       <<IssueUnknownPrefix \o DocTypeChars("unknown")>>,
                       <<RecSupportedType>>),
      ValidationResult("doc11", "utility_bill", 60, <<>>, <<>>),
      SampleMissingFields,
      None }

ResultLists == UNION {[1..n -> SampleResults] : n \in 0..MaxResults}

InitSummary ==
    /\ request \in [op : {"generate_compliance_summary"},
                    customer_id : {"CUST123"},
                    validation_results : ResultLists]
    /\ ret = None
    /\ kyc_use_database = FALSE
    /\ kyc_is_mock = TRUE
    /\ kyc_validations = <<>>
    /\ kyc_events = <<>>
    /\ summary_use_database \in BOOLEAN
    /\ summary_is_mock \in BOOLEAN
    /\ memory_summaries = <<>>
    /\ summary_events = <<>>
    /\ IngestIdle
    /\ broker = <<>>
    /\ db_write_fails = FALSE
    /\ kafka_send_fails \in (IF summary_is_mock THEN {FALSE} ELSE BOOLEAN)
    /\ knowledge_upsert_fails = FALSE
    /\ now = 0

NextSummary == GenerateComplianceSummary

SpecSummary == InitSummary /\ [][NextSummary]_vars

(***************************************************************************)
(* A session: a sequence of calls on the simple ingestion agent, the KYC    *)
(* validation agent and the summary agent of one process                    *)
(***************************************************************************)
\* the row of a document id, as session.query(Document).filter(...).first()
\* finds it
DocumentRowOf(rows, doc_id) ==
    rows[CHOOSE k \in 1..Len(rows) : rows[k].id = doc_id]

\* SimpleDocumentIngestionAgent._get_from_database(doc_id): the dict of the
\* row, None when there is no row or the query raises (upload_time, which
\* the database sets on insertion, is left out)
_get_from_database(rows, read_fails, doc_id) ==
    IF read_fails \/ \A k \in 1..Len(rows) : rows[k].id # doc_id
    THEN None
    ELSE DocumentRowOf(rows, doc_id)

\* SimpleDocumentIngestionAgent.get_document(doc_id); ret holds the returned
\* value in its field document, so that a returned None differs from no
\* return yet
GetDocument ==
    /\ ret = None
    /\ request.op = "get_document"
    /\ ret' = [document |->
                 IF ingest_use_database
                 THEN _get_from_database(documents, db_write_fails, request.doc_id)
                 ELSE Get(memory_storage, request.doc_id, None)]
    /\ UNCHANGED <<request, kyc_vars, summary_vars, ingest_vars, broker, env_vars>>

\* the entry of a row in the list of _list_from_database: the row without
\* its extracted_text
ListedRow(row) ==
    [id                |-> row.id,
     filename          |-> row.filename,
     file_type         |-> row.file_type,
     customer_id       |-> row.customer_id,
     text_length       |-> row.text_length,
     processed         |-> row.processed,
     processing_status |-> row.processing_status]

\* SimpleDocumentIngestionAgent._list_from_database(customer_id); the list
\* is modelled by the set of its entries
_list_from_database(rows, read_fails, customer_id) ==
    LET matching == {k \in 1..Len(rows) :
                        customer_id = "" \/ rows[k].customer_id = customer_id}
    IN  IF read_fails
        THEN [total_documents |-> 0, documents |-> {}]
        ELSE [total_documents |-> Cardinality(matching),
              documents       |-> {ListedRow(rows[k]) : k \in matching}]

\* SimpleDocumentIngestionAgent.list_documents(customer_id), "" standing for
\* the falsy values (None, '') that switch the filter off; the list is
\* modelled by the set of its entries
ListDocuments ==
    /\ ret = None
    /\ request.op = "list_documents"
    /\ ret' = IF ingest_use_database
              THEN _list_from_database(documents, db_write_fails, request.customer_id)
              ELSE LET ids == {id \in DOMAIN memory_storage :
                                  \/ request.customer_id = ""
                                  \/ memory_storage[id].customer_id = request.customer_id}
                   IN  [total_documents |-> Cardinality(ids),
                        documents       |-> {memory_storage[id] : id \in ids}]
    /\ UNCHANGED <<request, kyc_vars, summary_vars, ingest_vars, broker, env_vars>>

\* the number of calls of a session
MaxCalls == 3

SessionFiles ==
    { TextFile(FileDocument, <<>>), TextFile(FileDocument, FragBankStatement),
      [filename |-> FileDocument, exists |-> FALSE, size |-> 0,
       valid_utf8 |-> FALSE, pdf_readable |-> FALSE, text |-> <<>>] }

SessionCustomers == {"CUST123", BytesCustomerId}

\* the calls a client may make as call number seq of its session
SessionRequests(seq) ==
    [op : {"process_document"}, file : SessionFiles,
     customer_id : SessionCustomers, seq : {seq}]
    \cup [op : {"get_document"},
          doc_id : {_generate_document_id(FileDocument, "CUST123", clock) : clock \in {0, 1}},
          seq : {seq}]
    \cup [op : {"list_documents"}, customer_id : {"", "CUST123"}, seq : {seq}]
    \cup [op : {"validate_kyc_document"}, document_id : {"DOC001"},
          extracted_text : {NoText, FragBankStatement}, filename : {FileDocument},
          customer_id : SessionCustomers, seq : {seq}]
    \cup [op : {"generate_compliance_summary"}, customer_id : SessionCustomers,
          validation_results : {<<>>, <<SampleBank60>>, <<None>>}, seq : {seq}]

\* the client makes its next call: the clock has not gone back, and the
\* collaborators may fail during the call or not
NextCall ==
    /\ ret # None
    /\ request.seq < MaxCalls
    /\ request' \in SessionRequests(request.seq + 1)
    /\ ret' = None
    /\ now' \in {now, now + 1}
    /\ db_write_fails' \in (IF ingest_use_database THEN BOOLEAN ELSE {FALSE})
    /\ kafka_send_fails' \in (IF ingest_is_mock THEN {FALSE} ELSE BOOLEAN)
    /\ UNCHANGED <<kyc_vars, summary_vars, ingest_vars, broker, knowledge_upsert_fails>>

\* the three agents are constructed in one process: test_database_connection
\* and the Kafka probe give each of them the same answer
InitSession ==
    /\ request \in SessionRequests(1)
    /\ ret = None
    /\ ingest_use_database \in BOOLEAN
    /\ kyc_use_database = ingest_use_database
    /\ summary_use_database = ingest_use_database
    /\ ingest_is_mock \in BOOLEAN
    /\ kyc_is_mock = ingest_is_mock
    /\ summary_is_mock = ingest_is_mock
    /\ kyc_validations = <<>>
    /\ kyc_events = <<>>
    /\ memory_summaries = <<>>
    /\ summary_events = <<>>
    /\ memory_storage = <<>>
    /\ documents = <<>>
    /\ ingest_events = <<>>
    /\ agno_enabled = FALSE
    /\ knowledge = None
    /\ broker = <<>>
    /\ db_write_fails \in (IF ingest_use_database THEN BOOLEAN ELSE {FALSE})
    /\ kafka_send_fails \in (IF ingest_is_mock THEN {FALSE} ELSE BOOLEAN)
    /\ knowledge_upsert_fails = FALSE
    /\ now = 0

NextSession ==
    \/ NextCall
    \/ ProcessDocument
    \/ GetDocument
    \/ ListDocuments
    \/ ValidateKycDocument
    \/ GenerateComplianceSummary

SpecSession == InitSession /\ [][NextSession]_vars

(***************************************************************************)
(* Properties of the rule engine (specification Spec)                       *)
(***************************************************************************)
\* C1: every result of _run_validation, for the four per-type validators
\* and for the unknown-type branch and every text, has is_valid true
\* exactly when score >= 70.
C1_IsValidIffScoreAtLeast70 ==
    ret # None => (ret.is_valid <=> ret.score >= 70)

\* a commercial registration scoring exactly the threshold (25 + 25 + 20)
C1_Witness_ScoreAtThreshold ==
    /\ ret # None
    /\ request.doc_type = "commercial_registration"
    /\ ret.score = 70
    /\ ret.is_valid

\* C9: for a document type outside the four supported ones, and every text,
\* the result has score 0, is_valid false, exactly one issue, which names
\* the unsupported type, and the recommendation to provide a supported type.
C9_UnsupportedTypeFails ==
    (ret # None /\ request.doc_type \notin SupportedTypes) =>
        /\ ret.score = 0
        /\ ret.is_valid = FALSE
        /\ Len(ret.issues) = 1
        /\ Contains(ret.issues[1], DocTypeChars(request.doc_type))
        /\ ret.recommendations = <<RecSupportedType>>

\* type unknown on a text that passes all four commercial-registration checks
C9_Witness_UnknownOnFullText ==
    /\ ret # None
    /\ request.doc_type = "unknown"
    /\ _validate_commercial_registration(request.text).score = 100

\* the checks of each supported type with the weights of the specification
\* table, each check named by the issue it reports when it fails
C10_WeightTable(doc_type) ==
    CASE doc_type = "commercial_registration" ->
            << <<IssueCrNumber, 25>>, <<IssueCompany, 25>>,
               <<IssueDates, 20>>, <<IssueJurisdiction, 30>> >>
      [] doc_type = "national_id" ->
            << <<IssueNationalId, 40>>, <<IssueArabic, 30>>,
               <<IssueIdentityKeywords, 30>> >>
      [] doc_type = "bank_statements" ->
            << <<IssueBankKeywords, 30>>, <<IssueAccount, 35>>,
               <<IssueCurrency, 35>> >>
      [] doc_type = "tax_certificate" ->
            << <<IssueTaxKeywords, 40>>, <<IssueVat, 35>>,
               <<IssueValidity, 25>> >>

\* C10: for each supported type the score is the sum of the table weights
\* of the checks that passed (those whose issue is not reported); it lies
\* in 0..100 and is 100 exactly when every check passed.
C10_ScoreIsSumOfPassedWeights ==
    (ret # None /\ request.doc_type \in SupportedTypes) =>
        LET table == C10_WeightTable(request.doc_type)
            Passed(k) == \A j \in 1..Len(ret.issues) : ret.issues[j] # table[k][1]
            total == SumSeq([k \in 1..Len(table) |->
                                IF Passed(k) THEN table[k][2] ELSE 0])
        IN  /\ ret.score = total
            /\ ret.score \in 0..100
            /\ (ret.score = 100 <=> \A k \in 1..Len(table) : Passed(k))

\* a bank statement that passes two of its three checks
C10_Witness_PartialScore ==
    /\ ret # None
    /\ request.doc_type = "bank_statements"
    /\ ret.score = 65
    /\ Len(ret.issues) = 1

(***************************************************************************)
(* Properties of the aggregator (specification SpecSummary)                 *)
(***************************************************************************)
\* the call returned a summary, not the error outcome
SummaryReturned == ret # None /\ "error" \notin DOMAIN ret

\* no result of the set has document type t
TypeAbsent(t) ==
    \A i \in 1..Len(request.validation_results) :
        Get(request.validation_results[i], "document_type", "unknown") # t

MissingSet == {ret.document_analysis.missing_documents[k] :
                  k \in 1..Len(ret.document_analysis.missing_documents)}

\* C2: when commercial_registration or national_id is absent from the
\* result set the status is never FULLY_COMPLIANT or MOSTLY_COMPLIANT; a
\* non-empty set without national_id whose documents all score 100 gives
\* PARTIALLY_COMPLIANT.
C2_CriticalMissingCap ==
    SummaryReturned =>
        /\ (TypeAbsent("commercial_registration") \/ TypeAbsent("national_id"))
              => ret.compliance_status \notin {"FULLY_COMPLIANT", "MOSTLY_COMPLIANT"}
        /\ ( /\ request.validation_results # <<>>
             /\ TypeAbsent("national_id")
             /\ \A i \in 1..Len(request.validation_results) :
                   Get(request.validation_results[i], "validation_score", 0) = 100 )
              => ret.compliance_status = "PARTIALLY_COMPLIANT"

\* three documents scoring 100, none of them a national_id
C2_Witness_HighScoreCapped ==
    /\ SummaryReturned
    /\ Len(request.validation_results) = 3
    /\ TypeAbsent("national_id")
    /\ ~TypeAbsent("commercial_registration")
    /\ \A i \in 1..3 : Get(request.validation_results[i], "validation_score", 0) = 100
    /\ FloatGeqInt(ret.compliance_score, 90)
    /\ ret.compliance_status = "PARTIALLY_COMPLIANT"

\* C3: the status is the first match of: overall >= 90 and no critical
\* document missing: FULLY_COMPLIANT; overall >= 75 and no critical document
\* missing: MOSTLY_COMPLIANT; overall >= 60: PARTIALLY_COMPLIANT; otherwise
\* NON_COMPLIANT.
C3_StatusIsFirstMatch ==
    SummaryReturned =>
        LET overall == ret.compliance_score
            critical_missing ==
                TypeAbsent("commercial_registration") \/ TypeAbsent("national_id")
        IN  /\ ret.compliance_status \in
                  {"FULLY_COMPLIANT", "MOSTLY_COMPLIANT", "PARTIALLY_COMPLIANT", "NON_COMPLIANT"}
            /\ ret.compliance_status =
                  IF FloatGeqInt(overall, 90) /\ ~critical_missing THEN "FULLY_COMPLIANT"
                  ELSE IF FloatGeqInt(overall, 75) /\ ~critical_missing THEN "MOSTLY_COMPLIANT"
                  ELSE IF FloatGeqInt(overall, 60) THEN "PARTIALLY_COMPLIANT"
                  ELSE "NON_COMPLIANT"

\* both critical documents present and an overall score in [75, 90)
C3_Witness_MostlyCompliant ==
    /\ SummaryReturned
    /\ ~TypeAbsent("commercial_registration")
    /\ ~TypeAbsent("national_id")
    /\ FloatGeqInt(ret.compliance_score, 75)
    /\ FloatLtInt(ret.compliance_score, 90)
    /\ ret.compliance_status = "MOSTLY_COMPLIANT"

\* the weights of the claim in tenths, and the exact weighted mean
\* <<sum(score * weight), sum(weight)>> of a result set
WeightInTenths(doc_type) ==
    IF doc_type \in {"commercial_registration", "national_id"} THEN 3
    ELSE IF doc_type \in {"bank_statements", "tax_certificate"} THEN 2
    ELSE 1

ExactWeightedMean(results) ==
    RNorm(SumSeq([i \in 1..Len(results) |->
                     Get(results[i], "validation_score", 0)
                       * WeightInTenths(Get(results[i], "document_type", "unknown"))]),
          SumSeq([i \in 1..Len(results) |->
                     WeightInTenths(Get(results[i], "document_type", "unknown"))]))

\* C4: the overall score equals sum(score * weight) / sum(weight) over the
\* results present (weights 0.3, 0.3, 0.2, 0.2, and 0.1 for any other type),
\* and is 0 for the empty set.
C4_OverallIsWeightedMean ==
    SummaryReturned =>
        IF request.validation_results = <<>>
        THEN ret.compliance_score = FloatZero
        ELSE LET mean == ExactWeightedMean(request.validation_results)
             IN  /\ ret.compliance_score.n = mean[1]
                 /\ ret.compliance_score.d = mean[2]
                 /\ ret.compliance_score.en = 0

\* the three results of scenario D, in any order
IsScenarioD ==
    /\ Len(request.validation_results) = 3
    /\ {request.validation_results[i] : i \in 1..3} = {SampleCr95, SampleNid100, SampleBank60}

\* C5 as stated: scenario D yields overall 83.75 (= 335/4), missing
\* documents {tax_certificate} and status MOSTLY_COMPLIANT.
C5_ScenarioD_Overall8375 ==
    (SummaryReturned /\ IsScenarioD) =>
        /\ ret.compliance_score = [n |-> 335, d |-> 4, en |-> 0, ed |-> 1]
        /\ MissingSet = {"tax_certificate"}
        /\ ret.compliance_status = "MOSTLY_COMPLIANT"

\* C5 amended: scenario D yields overall 88.125 (= 705/8, computed without
\* rounding error), missing documents {tax_certificate} and status
\* MOSTLY_COMPLIANT.
C5_ScenarioD_Overall88125 ==
    (SummaryReturned /\ IsScenarioD) =>
        /\ ret.compliance_score = [n |-> 705, d |-> 8, en |-> 0, ed |-> 1]
        /\ MissingSet = {"tax_certificate"}
        /\ ret.compliance_status = "MOSTLY_COMPLIANT"

\* the summary of scenario D, in the order of test_compliance_summary_agent
C5_Witness_ScenarioD ==
    /\ SummaryReturned
    /\ request.validation_results = <<SampleCr95, SampleNid100, SampleBank60>>

\* C6: missing_documents is exactly the set of required types of which the
\* result set holds no result, valid or not.
C6_MissingIsRequiredMinusPresent ==
    SummaryReturned =>
        /\ MissingSet = {t \in SupportedTypes : TypeAbsent(t)}
        /\ Len(ret.document_analysis.missing_documents) = Cardinality(MissingSet)

\* an invalid bank statement is in the set, and bank_statements is not
\* reported missing while another type is
C6_Witness_InvalidCountsAsPresent ==
    /\ SummaryReturned
    /\ \E i \in 1..Len(request.validation_results) :
          request.validation_results[i] = SampleBank60
    /\ "bank_statements" \notin MissingSet
    /\ MissingSet # {}

\* the result set without its last result, and the last result
Front(seq) == SubSeq(seq, 1, Len(seq) - 1)

Last(seq) == seq[Len(seq)]

\* the set is S plus r, with r a valid (score >= 70) result of a required type
AddedValidRequired ==
    /\ SummaryReturned
    /\ request.validation_results # <<>>
    /\ Get(Last(request.validation_results), "document_type", "unknown") \in SupportedTypes
    /\ Get(Last(request.validation_results), "validation_score", 0) >= 70

OnlyMissingFields ==
    \A i \in 1..Len(request.validation_results) : IsDict(request.validation_results[i])

\* C8: over an empty result set, or results with missing fields, the call
\* returns a summary with compliance_score and compliance_status and never
\* the error outcome; for the empty set these are 0 and NON_COMPLIANT.
C8_EmptyOrMissingFieldsDefined ==
    (ret # None /\ OnlyMissingFields) =>
        /\ "error" \notin DOMAIN ret
        /\ {"compliance_score", "compliance_status"} \subseteq DOMAIN ret
        /\ request.validation_results = <<>> =>
              /\ ret.compliance_score = FloatZero
              /\ ret.compliance_status = "NON_COMPLIANT"

\* a summary over a result without document_type, validation_score,
\* is_valid and issues
C8_Witness_MissingFields ==
    /\ ret # None
    /\ \E i \in 1..Len(request.validation_results) :
          request.validation_results[i] = SampleMissingFields
    /\ OnlyMissingFields
    /\ ret.compliance_status = "NON_COMPLIANT"
    /\ ret.compliance_score = FloatZero


\* C11: for every bank_statements text in which neither the IBAN pattern nor
\* the 10-20 digit account pattern matches, the score is at most 65, is_valid
\* is false and the issues contain the account-number/IBAN message, whatever
\* the bank-keyword and currency checks give.
C11_NoAccountNumberFails ==
    ( /\ ret # None
      /\ request.op = "_run_validation"
      /\ request.doc_type = "bank_statements"
      /\ ~FindIban(request.text)
      /\ ~FindAccountNumber(request.text) ) =>
        /\ ret.score <= 65
        /\ ret.is_valid = FALSE
        /\ \E j \in 1..Len(ret.issues) : ret.issues[j] = IssueAccount

\* a bank statement with bank keywords, SAR and a 10-digit run glued to
\* letters, which neither pattern matches: the other two checks pass
C11_Witness_KeywordsAndCurrencyOnly ==
    /\ ret # None
    /\ request.op = "_run_validation"
    /\ request.doc_type = "bank_statements"
    /\ Contains(request.text, FragGluedNumber)
    /\ ~FindIban(request.text)
    /\ ~FindAccountNumber(request.text)
    /\ ret.score = 65
    /\ ret.issues = <<IssueAccount>>

\* "2024-01-15"
ScenarioADate ==
    <<50, 48, 50, 52, 45, 48, 49, 45, 49, 53>>

\* validate_kyc_document returned the result of a validation
KycValidated ==
    /\ ret # None
    /\ request.op = "validate_kyc_document"
    /\ "error" \notin DOMAIN ret

\* the text holds the four items of scenario A
ScenarioAText(text) ==
    /\ Contains(text, FragCrCertificate)
    /\ Contains(text, FragCrNumber)
    /\ Contains(text, ScenarioADate)
    /\ Contains(text, FragRiyadh)

\* the filename holds none of the tokens by which _identify_document_type
\* recognises another document type
NamesNoOtherType(filename) ==
    ~ContainsAny(Lower(filename), FilenameNational \o FilenameBank \o FilenameTax)

Analysed ==
    /\ ret # None
    /\ request.op = "_run_enhanced_analysis"
    /\ ret.analysis_method = "agno_enhanced"

\* the points of the k-th candidate type for the request: 3 for a content
\* keyword in the text and 2 for a filename token in the filename
CandidateScore(k) ==
    (IF \E w \in 1..Len(ClassifierContentKeywords[k]) :
            Contains(Lower(request.text), ClassifierContentKeywords[k][w])
     THEN 3 ELSE 0)
  + (IF \E w \in 1..Len(ClassifierFilenameTokens[k]) :
            Contains(Lower(request.filename), ClassifierFilenameTokens[k][w])
     THEN 2 ELSE 0)

\* C13: each of the four candidate types scores 3 points for a content
\* keyword in the text plus 2 points for a filename token in the filename;
\* the classifier returns the type with the highest score, the earliest in
\* the order commercial_registration, national_id, bank statement,
\* tax_certificate among equals, and unknown exactly when the highest score
\* is 0.
C13_HighestScoreWithFixedPriority ==
    Analysed =>
        /\ \A k \in 1..4 : CandidateScore(k) \in {0, 2, 3, 5}
        /\ (ret.document_type = "unknown") <=> (\A k \in 1..4 : CandidateScore(k) = 0)
        /\ ret.document_type # "unknown" =>
               \E k \in 1..4 :
                   /\ ret.document_type = ClassifierTypes[k]
                   /\ \A j \in 1..4 : CandidateScore(j) <= CandidateScore(k)
                   /\ \A j \in 1..(k - 1) : CandidateScore(j) < CandidateScore(k)

C13_Witness_TieGoesToEarlierType ==
    /\ Analysed
    /\ CandidateScore(1) = CandidateScore(2)
    /\ CandidateScore(1) > 0
    /\ CandidateScore(3) <= CandidateScore(1)
    /\ CandidateScore(4) <= CandidateScore(1)
    /\ ret.document_type = "commercial_registration"

\* C14: every document type the pipeline produces (by the score-based
\* classifier or by the filename guess) is one of commercial_registration,
\* national_id, bank_statements, tax_certificate, unknown: the names the
\* rule engine dispatches on and the aggregator counts as required types.
C14_DocumentTypesAreCanonical ==
    (ret # None /\ request.op = "_run_enhanced_analysis") =>
        ret.document_type \in SupportedTypes \cup {"unknown"}

\* the confidence the claim prescribes for the request and the chosen type,
\* the sums being those of double-precision arithmetic
PrescribedConfidence(doc_type) ==
    FloatMin(
        AddIf(HasStructure(request.text),
              AddIf(Len(request.text) > 200,
                    AddIf(Contains(Lower(request.filename), ClassifierTypeChars(doc_type)),
                          FloatLiteral(5, 10), FloatLiteral(2, 10)),
                    FloatLiteral(2, 10)),
              FloatLiteral(1, 10)),
        FloatLiteral(1, 1))

\* the request's text with only confidence factors changed: made longer than
\* 200 characters by a paragraph without keywords, or given a colon
ConfidenceVariants == {request.text \o FragPadding, request.text \o <<58>>}

\* C15: the confidence is 0.5, plus 0.2 if the chosen type's name is in the
\* lower-cased filename, plus 0.2 if the text is longer than 200 characters,
\* plus 0.1 if the text has one of the characters : - / ( ), capped at 1.0;
\* it lies in [0.5, 1.0]; and the chosen type is the same for inputs that
\* differ only in the confidence factors.
C15_ConfidenceFormula ==
    (ret # None /\ request.op = "_run_enhanced_analysis") =>
        /\ ret.confidence = PrescribedConfidence(ret.document_type)
        /\ ~FloatLess(ret.confidence, FloatLiteral(5, 10))
        /\ FloatLeqInt(ret.confidence, 1)
        /\ \A text \in ConfidenceVariants :
               _run_enhanced_analysis(text, request.filename).document_type
                   = ret.document_type

\* the required types without a result in the request, in the order of the
\* static table
AbsentRequiredTypes == SelectSeq(RequiredDocumentTypes, TypeAbsent)

\* some issue of some result of the request contains "not found" or "not
\* detected", in any letter case
SomeIssueNotFound ==
    \E i \in 1..Len(request.validation_results) :
        \E j \in 1..Len(Get(request.validation_results[i], "issues", <<>>)) :
            \/ Contains(Lower(request.validation_results[i].issues[j]), KwNotFound)
            \/ Contains(Lower(request.validation_results[i].issues[j]), KwNotDetected)

\* C16: the recommendations of a summary are one MISSING_DOCUMENT entry per
\* missing required type (priority Critical for commercial_registration and
\* national_id, High for bank_statements and tax_certificate), then one
\* CRITICAL_ISSUES entry iff some issue text contains "not found" or "not
\* detected", then one OVERALL_COMPLIANCE entry iff the overall score is
\* below 70.
C16_RecommendationList ==
    SummaryReturned =>
        LET recs     == ret.recommendations
            missing  == AbsentRequiredTypes
            critical == IF SomeIssueNotFound THEN 1 ELSE 0
            low      == IF FloatLtInt(ret.compliance_score, 70) THEN 1 ELSE 0
        IN  /\ Len(recs) = Len(missing) + critical + low
            /\ \A k \in 1..Len(missing) :
                   /\ recs[k].type = "MISSING_DOCUMENT"
                   /\ recs[k].title = <<"Submit", required_documents[missing[k]].name>>
                   /\ recs[k].priority =
                          IF missing[k] \in {"commercial_registration", "national_id"}
                          THEN "Critical" ELSE "High"
            /\ critical = 1 =>
                   /\ recs[Len(missing) + 1].type = "CRITICAL_ISSUES"
                   /\ recs[Len(missing) + 1].priority = "Critical"
            /\ low = 1 =>
                   /\ recs[Len(recs)].type = "OVERALL_COMPLIANCE"
                   /\ recs[Len(recs)].priority = "High"

C16_Witness_AllThreeKinds ==
    /\ SummaryReturned
    /\ Len(AbsentRequiredTypes) = 2
    /\ SomeIssueNotFound
    /\ FloatLtInt(ret.compliance_score, 70)
    /\ Len(ret.recommendations) = 4
    /\ ret.recommendations[3].type = "CRITICAL_ISSUES"
    /\ ret.recommendations[4].type = "OVERALL_COMPLIANCE"

\* the file of the request passes the three input checks of process_document
AcceptedFile ==
    /\ request.file.exists
    /\ request.file.size <= MAX_FILE_SIZE
    /\ FileExt(request.file.filename) \in ALLOWED_EXTENSIONS

\* C17: a failure of a collaborator (the database write raising, or the
\* event publish failing) during process_document never aborts it: the
\* operation returns the success result, with the computed fields, that it
\* returns when the collaborators succeed.
C17_CollaboratorFailureNeverAborts ==
    ( /\ ret # None
      /\ request.op = "process_document"
      /\ AcceptedFile
      /\ db_write_fails \/ kafka_send_fails ) =>
        /\ ret.status = "success"
        /\ ret.filename = request.file.filename
        /\ ret.text_length =
               Len(_extract_text(request.file, FileExt(request.file.filename)))

\* nothing was stored and nothing was published
NothingStoredOrPublished ==
    /\ DOMAIN memory_storage = {}
    /\ documents = <<>>
    /\ ingest_events = <<>>
    /\ broker = <<>>
    /\ knowledge \in {None, [entries |-> <<>>]}

\* C18: a file that does not exist, is larger than MAX_FILE_SIZE or has an
\* extension outside ALLOWED_EXTENSIONS is rejected by process_document and
\* by process_document_enhanced with a result of status 'error'; no document
\* record is stored and no event is published.
C18_InputErrorsRejected ==
    ( /\ ret # None
      /\ request.op \in {"process_document", "process_document_enhanced"}
      /\ ~AcceptedFile ) =>
        /\ ret.status = "error"
        /\ NothingStoredOrPublished

\* C19: a text-extraction failure (unreadable PDF, undecodable text file,
\* image without OCR) is never propagated: for an accepted file whose
\* collaborators work, the ingestion operation obtains a string as the
\* extracted text and completes with status 'success'.
C19_ExtractionFailureNotPropagated ==
    ( /\ ret # None
      /\ request.op \in {"process_document", "process_document_enhanced"}
      /\ AcceptedFile
      /\ ~db_write_fails ) =>
        /\ ret.status = "success"
        /\ ret.text_length >= 0

\* what process_document_enhanced returns for the request with enrichment
\* switched to the given setting
EnhancedResultWith(enabled) ==
    IF EnhancedException(request.file) # ""
    THEN [filename     |-> request.file.filename,
          status       |-> "error",
          error        |-> EnhancedException(request.file),
          processed_at |-> now]
    ELSE Enriched(BasicResult(
             _generate_document_id(request.file.filename, request.customer_id, now),
             request.file.filename, FileExt(request.file.filename), request.customer_id,
             BasicExtractedText(request.file, FileExt(request.file.filename)), now),
             enabled)

CoreFields == {"filename", "file_type", "customer_id", "extracted_text", "text_length"}

EnrichmentFields ==
    {"enhanced_analysis", "document_type_confidence", "quality_assessment", "agno_enhanced"}

\* C20: for every input file, process_document_enhanced with enrichment
\* enabled and with enrichment disabled return the same status and the same
\* core fields (filename, file_type, customer_id, extracted_text,
\* text_length) and store and publish alike; the results differ only in
\* enrichment fields; and a failure inside the enrichment step (the analysis
\* falling back, the vector upsert raising) never makes the status 'error'.
C20_EnrichmentIsAdditive ==
    (ret # None /\ request.op = "process_document_enhanced") =>
        LET other == EnhancedResultWith(~agno_enabled)
        IN  /\ ret.status = other.status
            /\ \A f \in CoreFields \cap DOMAIN ret : f \in DOMAIN other /\ ret[f] = other[f]
            /\ \A f \in CoreFields \cap DOMAIN other : f \in DOMAIN ret
            /\ \A f \in (DOMAIN ret \cup DOMAIN other) \ EnrichmentFields :
                   f \in DOMAIN ret /\ f \in DOMAIN other /\ ret[f] = other[f]
            /\ Len(ingest_events) + Len(broker) <= 1
            /\ (ret.status = "success") <=> (EnhancedException(request.file) = "")
            /\ (ret.status = "success" /\ ~ingest_use_database) =>
                   DOMAIN memory_storage = {ret.document_id}
            /\ (ret.status = "success" /\ ingest_is_mock) => Len(ingest_events) = 1

C20_Witness_EnrichmentFailsIngestionSucceeds ==
    /\ ret # None
    /\ request.op = "process_document_enhanced"
    /\ agno_enabled
    /\ knowledge # None
    /\ knowledge_upsert_fails
    /\ ret.status = "success"
    /\ ret.agno_enhanced = TRUE
    /\ ret.enhanced_analysis.analysis_method = "fallback"
    /\ ret.text_length = 0

\* the checks of each validator in the order of the source, each decided on
\* the text alone, with the issue it reports
CheckTable(doc_type, text) ==
    CASE doc_type = "commercial_registration" ->
           << [passed |-> SearchCrPattern(text), issue |-> IssueCrNumber],
              [passed |-> ContainsAny(Lower(text), company_indicators),
               issue |-> IssueCompany],
              [passed |-> FindIsoDate(text) \/ FindSlashDate(text) \/ FindFlexibleDate(text),
               issue |-> IssueDates],
              [passed |-> ContainsAny(Lower(text), saudi_indicators),
               issue |-> IssueJurisdiction] >>
      [] doc_type = "national_id" ->
           << [passed |-> SearchIdPattern(text), issue |-> IssueNationalId],
              [passed |-> SearchArabic(text), issue |-> IssueArabic],
              [passed |-> ContainsAny(Lower(text), id_keywords),
               issue |-> IssueIdentityKeywords] >>
      [] doc_type = "bank_statements" ->
           << [passed |-> ContainsAny(Lower(text), bank_keywords),
               issue |-> IssueBankKeywords],
              [passed |-> FindIban(text) \/ FindAccountNumber(text), issue |-> IssueAccount],
              [passed |-> ContainsAny(text, currency_patterns), issue |-> IssueCurrency] >>
      [] doc_type = "tax_certificate" ->
           << [passed |-> ContainsAny(Lower(text), tax_keywords),
               issue |-> IssueTaxKeywords],
              [passed |-> SearchVatPattern(text), issue |-> IssueVat],
              [passed |-> ContainsAny(Lower(text), validity_keywords),
               issue |-> IssueValidity] >>

FailedChecks(doc_type, text) ==
    {k \in 1..Len(CheckTable(doc_type, text)) : ~CheckTable(doc_type, text)[k].passed}

\* C24: every per-type validator evaluates all its checks in the table
\* order with no early exit: the number of issues is the number of failed
\* checks, the issues are those of the failed checks in check order, and a
\* check's outcome is decided by the text alone, whatever the earlier checks
\* gave.
C24_AllChecksReportedInOrder ==
    (ret # None /\ request.op = "_run_validation" /\ request.doc_type \in SupportedTypes) =>
        LET table == CheckTable(request.doc_type, request.text)
        IN  /\ Len(ret.issues) = Cardinality(FailedChecks(request.doc_type, request.text))
            /\ ret.issues = Concat([k \in 1..Len(table) |->
                                      IF table[k].passed THEN <<>> ELSE <<table[k].issue>>])

C24_Witness_PassBetweenTwoFailures ==
    /\ ret # None
    /\ request.op = "_run_validation"
    /\ request.doc_type = "commercial_registration"
    /\ FailedChecks(request.doc_type, request.text) = {1, 3}
    /\ ret.issues = <<IssueCrNumber, IssueDates>>
    /\ ret.score = 55

\* C25: each failed check of every per-type validator appends both its issue
\* and its recommendation, so in every validation result of a supported type
\* the number of recommendations equals the number of issues.
C25_OneRecommendationPerIssue ==
    (ret # None /\ request.op = "_run_validation" /\ request.doc_type \in SupportedTypes) =>
        Len(ret.recommendations) = Len(ret.issues)

\* C28: the document type that selects the rule set in validate_kyc_document
\* is, for every filename and text, the type the score-based classifier
\* assigns to that filename and text.
C28_RuleSetTypeIsClassifierType ==
    KycValidated =>
        ret.document_type =
            _classify_document_intelligently(request.extracted_text, request.filename)

\* a non-empty result set whose results all carry a score in 0..100
ScoredResults ==
    /\ SummaryReturned
    /\ request.validation_results # <<>>
    /\ \A i \in 1..Len(request.validation_results) :
           /\ IsDict(request.validation_results[i])
           /\ "validation_score" \in DOMAIN request.validation_results[i]
           /\ request.validation_results[i].validation_score \in 0..100

ScoresOfRequest ==
    {request.validation_results[i].validation_score :
        i \in 1..Len(request.validation_results)}

\* C30: for every non-empty result set whose scores all lie in 0..100, the
\* overall compliance score lies between the smallest and the largest score
\* of the set, and equals the common score when all results score the same.
C30_OverallWithinScoreRange ==
    ScoredResults =>
        /\ \E lo \in ScoresOfRequest : FloatGeqInt(ret.compliance_score, lo)
        /\ \E hi \in ScoresOfRequest : FloatLeqInt(ret.compliance_score, hi)
        /\ \A s \in ScoresOfRequest :
               ScoresOfRequest = {s} =>
                   /\ FloatGeqInt(ret.compliance_score, s)
                   /\ FloatLeqInt(ret.compliance_score, s)

\* the call of the session's current request has returned
Returned(op) == ret # None /\ request.op = op

\* C21: when the database is unavailable, every artifact that would have
\* been persisted is kept in memory: after a successful process_document the
\* document record is held under its id with the extracted text, get_document
\* returns the record held under an id, list_documents lists every record
\* held for its customer, the result of validate_kyc_document is retained by
\* the validation agent (among its stored validations or, failing that, in
\* its in-memory event log), and the summary of generate_compliance_summary
\* is retained under its customer id.
C21_InMemoryFallbackKeepsArtifacts ==
    ~ingest_use_database =>
        /\ (Returned("process_document") /\ ret.status = "success") =>
               /\ ret.document_id \in DOMAIN memory_storage
               /\ memory_storage[ret.document_id].extracted_text =
                      _extract_text(request.file, FileExt(request.file.filename))
               /\ memory_storage[ret.document_id].customer_id = request.customer_id
        /\ Returned("get_document") =>
               ret.document = Get(memory_storage, request.doc_id, None)
        /\ Returned("list_documents") =>
               \A id \in DOMAIN memory_storage :
                   memory_storage[id].customer_id = request.customer_id
                       => memory_storage[id] \in ret.documents
        /\ (Returned("validate_kyc_document") /\ "error" \notin DOMAIN ret) =>
               \/ \E k \in 1..Len(kyc_validations) :
                      /\ kyc_validations[k].document_id = ret.document_id
                      /\ kyc_validations[k].validation_score = ret.validation_score
               \/ \E k \in 1..Len(kyc_events) : kyc_events[k].value = ret
        /\ (Returned("generate_compliance_summary") /\ "error" \notin DOMAIN ret) =>
               /\ request.customer_id \in DOMAIN memory_summaries
               /\ memory_summaries[request.customer_id] = ret

\* the records held for the file and customer of the current request: same
\* filename, same customer, same text
RecordsOfRequestedFile ==
    {id \in DOMAIN memory_storage :
        /\ memory_storage[id].filename = request.file.filename
        /\ memory_storage[id].customer_id = request.customer_id
        /\ memory_storage[id].extracted_text =
               _extract_text(request.file, FileExt(request.file.filename))}

RowsOfRequestedFile ==
    {k \in 1..Len(documents) :
        /\ documents[k].filename = request.file.filename
        /\ documents[k].customer_id = request.customer_id
        /\ documents[k].extracted_text =
               _extract_text(request.file, FileExt(request.file.filename))}

\* C22: the document id is stable and derived from content and identity
\* only: ingesting a file that was ingested before for the same customer, at
\* whatever time, yields the id it was given before, and the stored record
\* of an id is never changed after it is created.
C22_DocumentIdStableRecordImmutable ==
    [][ /\ \A id \in DOMAIN memory_storage :
              /\ id \in DOMAIN memory_storage'
              /\ memory_storage'[id] = memory_storage[id]
        /\ \A k \in 1..Len(documents) :
              /\ k <= Len(documents')
              /\ documents'[k] = documents[k]
        /\ (request.op = "process_document" /\ ret = None /\ ret' # None
               /\ ret'.status = "success") =>
              /\ \A id \in RecordsOfRequestedFile : ret'.document_id = id
              /\ \A k \in RowsOfRequestedFile : ret'.document_id = documents[k].id
      ]_vars

\* a step in which validate_kyc_document returns a result without error
ValidationSucceeds ==
    /\ request.op = "validate_kyc_document"
    /\ ret = None
    /\ ret' # None
    /\ "error" \notin DOMAIN ret'

\* C23: validation results are write-once: a validation adds a new stored
\* validation record for its result, also when the document_id was validated
\* before, and no call modifies or removes a validation record stored before
\* or a result handed out before (the results the event log holds).
C23_ValidationResultsWriteOnce ==
    [][ /\ \A k \in 1..Len(kyc_validations) :
              /\ k <= Len(kyc_validations')
              /\ kyc_validations'[k] = kyc_validations[k]
        /\ \A k \in 1..Len(kyc_events) :
              /\ k <= Len(kyc_events')
              /\ kyc_events'[k] = kyc_events[k]
        /\ ValidationSucceeds =>
              /\ Len(kyc_validations') = Len(kyc_validations) + 1
              /\ kyc_validations'[Len(kyc_validations')] = KYCValidationRow(ret')
      ]_vars

\* C29: whenever validate_kyc_document returns an error result (a result
\* with an 'error' field and is_valid false), the call stored no validation
\* record and published no event: the stored records and the event log are
\* the same as before the call.
C29_ErrorResultLeavesNoTrace ==
    [][ ( /\ request.op = "validate_kyc_document"
          /\ ret = None
          /\ ret' # None
          /\ "error" \in DOMAIN ret' ) =>
            /\ ret'.is_valid = FALSE
            /\ kyc_validations' = kyc_validations
            /\ kyc_events' = kyc_events
            /\ broker' = broker
      ]_vars

\* the four topics the specification recognizes
RecognizedTopics ==
    {"document-processed", "kyc-validation-requested",
     "kyc-validation-completed", "compliance-summary-generated"}

\* the events the ingestion agent has handed to its transport: the mock's
\* list, or what the real producer delivered
PublishedByIngestion == IF ingest_is_mock THEN ingest_events ELSE broker

\* C27: every successful process_document call publishes exactly two events,
\* first document-processed and then kyc-validation-requested, both keyed by
\* the new document id, with the document record stored; a call that ends
\* with status 'error' publishes neither; and every published topic is one
\* of the four recognized topics.  (A real producer whose send raises
\* delivers nothing: delivery is best-effort.)
C27_TwoEventsPerIngestion ==
    /\ (Returned("process_document") /\ ret.status = "success"
           /\ (ingest_is_mock \/ ~kafka_send_fails)) =>
           /\ Len(PublishedByIngestion) = 2
           /\ PublishedByIngestion[1].topic = "document-processed"
           /\ PublishedByIngestion[2].topic = "kyc-validation-requested"
           /\ PublishedByIngestion[1].key = ret.document_id
           /\ PublishedByIngestion[2].key = ret.document_id
           /\ IF ingest_use_database
              THEN \E k \in 1..Len(documents) : documents[k].id = ret.document_id
              ELSE ret.document_id \in DOMAIN memory_storage
    /\ (Returned("process_document") /\ ret.status = "error") =>
           /\ ingest_events = <<>>
           /\ broker = <<>>
    /\ \A k \in 1..Len(ingest_events) : ingest_events[k].topic \in RecognizedTopics
    /\ \A k \in 1..Len(broker) : broker[k].topic \in RecognizedTopics

\* the events the validation agent has handed to its transport: the mock's
\* list, or what the real producer delivered
PublishedByValidation == IF kyc_is_mock THEN kyc_events ELSE broker

\* a validate_kyc_document call that returned a result without an error
KycCallSucceeded == Returned("validate_kyc_document") /\ "error" \notin DOMAIN ret

====
